---- MODULE Spec2Model ----
(***************************************************************************)
(* Peekaboo / PersonalDataHub: the access-control gateway between an       *)
(* owner's sources and an agent.  The model covers the agent API           *)
(* (POST /pull, POST /propose), the owner's staging endpoints              *)
(* (resolve, edit), the cache store with its background sync, and the      *)
(* audit log.  Handlers are split at their await points: everything        *)
(* between two awaits of a handler runs as one step; the auth middleware   *)
(* of the agent API is the step before the handler's await of the body.    *)
(***************************************************************************)
EXTENDS Integers, Sequences, FiniteSets, Bags, TLC

\* ------------------------------------------------------------------ bounds
\* Total number of HTTP requests (pull, propose, resolve, edit) in a run.
MaxRequests == 4
\* Total number of cache operations in a run: pull requests, sync ticks and
\* clock advances.
MaxCacheOps == 3
\* Total number of operations in a run of the whole gateway.
MaxOps == 3
\* Largest row list and largest filter set handed to applyFilters.
MaxRows == 2
MaxFilters == 2
\* TokenManager calls made in one run.
MaxVaultOps == 3

\* --------------------------------------------------------------- universes
Null == "null"

\* Values drawn by randomUUID().slice(0, 12) for a staged action.
ActionIds == {"act_1", "act_2"}

\* Keys and values of an action payload (action_data).
PayloadKeys == {"to", "subject"}
PayloadVals == {"a", "b"}
\* Every key an object of these runs has (payloads, row data, account_info).
KeyOrder == <<"body", "email", "login", "subject", "title", "to">>

\* A JS object with string values: a function from some of the keys.
Objects == UNION {[ks -> PayloadVals] : ks \in SUBSET PayloadKeys}

EmptyObject == [k \in {} |-> "a"]

\* Payloads an agent proposes; <<>> is an absent action_data, <<o>> a present one.
ProposeData == {<<>>, <<[to |-> "a", subject |-> "a"]>>}
\* Bodies of an edit call.
EditData == {<<>>, <<[subject |-> "b"]>>}

\* Bearer tokens a request may carry; <<>> is a missing Authorization header.
Tokens == {<<>>, <<"pk_good">>, <<"pk_other">>, <<"pk_new">>}

\* Request fields; "" is a missing (falsy) field.
SourceNames == {"", "gmail", "slack"}
ActionTypes == {"", "send_email"}
Purposes == {"", "why"}
Decisions == {"approve", "reject"}

\* ------------------------------------------------------------- time, text
MinutesPerDay == 1440
MinutesPerHour == 60
DefaultTtlDays == 7

\* Date.toISOString(): 'YYYY-MM-DD' 'T' 'HH:MM:SS.sssZ', as <<day, "T", minute>>.
toISOString(t) == <<t \div MinutesPerDay, "T", t % MinutesPerDay>>
\* SQLite datetime(): 'YYYY-MM-DD' ' ' 'HH:MM:SS', as <<day, " ", minute>>.
datetime(t) == <<t \div MinutesPerDay, " ", t % MinutesPerDay>>

\* The character code deciding a comparison at position i of such a text:
\* position 2 holds the separator, ' ' (32) or 'T' (84).
CharCode(text, i) == IF i = 2 THEN (IF text[i] = "T" THEN 84 ELSE 32) ELSE text[i]

\* Text comparison as SQLite's BINARY collation does it: -1, 0 or 1.
TextCompare(a, b) ==
    LET n == IF Len(a) < Len(b) THEN Len(a) ELSE Len(b)
        diff == {i \in 1..n : CharCode(a, i) # CharCode(b, i)}
    IN  IF diff = {}
        THEN (IF Len(a) < Len(b) THEN -1 ELSE IF Len(a) > Len(b) THEN 1 ELSE 0)
        ELSE LET i == CHOOSE j \in diff : \A k \in diff : j <= k
             IN  IF CharCode(a, i) < CharCode(b, i) THEN -1 ELSE 1

\* ------------------------------------------------------------------ config
\* sources.gmail.cache.ttl as loadConfig read it at startup: a string, <<>>
\* when the key is absent.
VARIABLE cacheTtl

\* The sources whose sources.<source>.cache.enabled is true in the
\* configuration loadConfig read at startup.
VARIABLE cacheSources

\* sources.<source>.owner_auth as loadConfig read it at startup; "" is an
\* absent clientId or clientSecret.
VARIABLE ownerAuth

\* The sources hub-config.yaml configures. In the configuration most runs
\* share gmail is served from the cache and github is fetched live.
config ==
    [gmail  |-> [boundary |-> [after |-> <<1>>, repos |-> {}],
                 cache |-> [enabled |-> "gmail" \in cacheSources, ttl |-> cacheTtl],
                 owner_auth |-> ownerAuth.gmail],
     github |-> [boundary |-> [after |-> <<>>, repos |-> {"owner/repo"}],
                 cache |-> [enabled |-> "github" \in cacheSources, ttl |-> <<>>],
                 owner_auth |-> ownerAuth.github]]

\* sourceConfig.boundary ?? {}
EmptyBoundary == [after |-> <<>>, repos |-> {}]

encryptionKey == <<"peekaboo-default-key">>

\* Rows a connector may return. A connector stamps its own name on its rows.
DataQ4 == [title |-> <<"Q", "4">>, body |-> <<"x">>]
DataHi == [title |-> <<"h", "i">>, body |-> <<"y">>]
Row(source, item, ts, data) ==
    [source |-> source, source_item_id |-> item, type |-> "email", timestamp |-> ts,
     data |-> data]

\* Results of connector.fetch: a returned row list, or a rejected promise.
Returned(rows) == [ok |-> TRUE, rows |-> rows]
Throw == [ok |-> FALSE, rows |-> <<>>]
FetchResults(source) ==
    { Returned(<<>>),
      Returned(<<Row(source, "m1", toISOString(0), DataQ4)>>),
      Returned(<<Row(source, "m1", toISOString(MinutesPerDay), DataHi),
                 Row(source, "m2", toISOString(MinutesPerDay + 5), DataQ4)>>),
      Returned(<<Row(source, "m2", toISOString(MinutesPerDay), DataHi),
                 Row(source, "m2", toISOString(MinutesPerDay), DataQ4)>>),
      Throw }

\* A member value that is a bigint, and row data that has one.
BigIntValue == <<"bigint", "1">>
DataBig == [title |-> <<"h", "i">>, body |-> BigIntValue]

\* A returned batch whose second row has data JSON.stringify cannot
\* serialise: it throws a TypeError on a bigint member.
UnwritableBatches(source) ==
    { Returned(<<Row(source, "m1", toISOString(MinutesPerDay), DataQ4),
                 Row(source, "m6", toISOString(MinutesPerDay), DataBig)>>) }

\* Steps by which the clock advances.
ClockSteps == {2 * MinutesPerHour, MinutesPerDay}

\* Outcomes of connector.executeAction: a result with success true or false,
\* or a rejected promise.
ExecOutcomes == {"success", "failure", "throw"}

VARIABLES
    api_keys,           \* table api_keys: id -> [key_hash, enabled]
    staging,            \* table staging: action_id -> row
    audit_log,          \* table audit_log: sequence of entries
    connectorRegistry,  \* the sources that have a connector registered
    now,                \* the wall clock, in minutes
    nticks,             \* number of times the clock advanced
    nreq,               \* number of requests received so far
    admitted,           \* agent requests past the auth middleware, awaiting their body
    lastCall,           \* the request received last
    lastResp,           \* the response sent last
    resolving,          \* resolve handlers awaiting connector.executeAction
    execLog,            \* the calls made to connector.executeAction
    approveIssued,      \* history: the action ids a resolve(approve) call named
    pipeline,           \* the executePipeline call in progress and its result
    pendingStates,      \* oauth-routes pendingStates: state -> [source, createdAt]
    exchanging,         \* OAuth callbacks awaiting the provider's answers
    wired,              \* a connector with the 'tokens' listener was made
    issuedStates,       \* history: state -> the source whose start call issued it
    acceptedCallbacks,  \* history: the callbacks that passed the state check
    filters,            \* table filters: set of quick filters
    cached_data,        \* table cached_data, in row order
    ivs,                \* number of IVs drawn by encryptField so far
    nsync,              \* number of sync ticks started so far
    syncing,            \* source -> number of syncSource calls awaiting fetch
    pulling,            \* pull handlers awaiting connector.fetch
    fetchLog,           \* the calls made to connector.fetch
    lastFetched,        \* history: what the last settled pull fetch returned
    lastWrite,          \* history: (source, item) -> what a sync wrote last
    started,            \* startSyncJobs has run
    timers,             \* the sync timers scheduled and not cleared: a bag of sources
    oauth_tokens,       \* table oauth_tokens, in row order
    refreshing,         \* token refreshes awaiting the provider's answer
    syncErrors          \* the sync failures the scheduler caught and logged

vars == <<api_keys, staging, audit_log, connectorRegistry, now, nticks, nreq, lastCall,
          lastResp, resolving, execLog, approveIssued, filters, cached_data, ivs,
          nsync, syncing, pulling, fetchLog, lastFetched, lastWrite, started, timers,
          oauth_tokens, refreshing, cacheTtl, syncErrors, pipeline,
          pendingStates, exchanging, issuedStates, acceptedCallbacks, admitted, wired,
          ownerAuth, cacheSources>>

stagingState == <<staging, resolving, execLog, approveIssued>>
cacheState == <<cached_data, ivs, nsync, syncing, lastWrite, started, timers, syncErrors>>
pullState == <<pulling, fetchLog, lastFetched>>
vaultState == <<oauth_tokens, refreshing>>
oauthState == <<pendingStates, exchanging, issuedStates, acceptedCallbacks, wired>>

\* A request, or a cache operation, may start while the run's budget lasts.
\* The requests received so far, answered or past the auth middleware.
Requests == nreq + BagCardinality(admitted)

Budget == Requests < MaxRequests /\ (started => Requests + nsync + nticks < MaxCacheOps)
CacheBudget == Requests + nsync + nticks < MaxCacheOps

\* ------------------------------------------------------------ JSON columns
\* JSON.stringify of an object: its key/value pairs as text, no member left
\* out.
JSON_stringify(obj) ==
    LET ks == SelectSeq(KeyOrder, LAMBDA k : k \in DOMAIN obj)
    IN  [i \in 1..Len(ks) |-> <<ks[i], obj[ks[i]]>>]

\* JSON.parse of such a text.
JSON_parse(text) ==
    LET ks == {text[i][1] : i \in 1..Len(text)}
    IN  [k \in ks |-> text[CHOOSE i \in 1..Len(text) : text[i][1] = k][2]]

\* ---------------------------------------------------------------- api keys
\* bcrypt: hashSync and compareSync.
hashSync(raw) == <<"bcrypt", raw>>
compareSync(token, key_hash) == key_hash = hashSync(token)

verifyApiKeyAnyRow(token) ==
    LET ok == {id \in DOMAIN api_keys : compareSync(token, api_keys[id].key_hash)}
    IN  IF ok = {} THEN Null ELSE CHOOSE id \in ok : TRUE

\* verifyApiKey: the id of an enabled key the token matches, or Null.
verifyApiKey(token) ==
    LET ok == {id \in DOMAIN api_keys :
                  api_keys[id].enabled = 1 /\ compareSync(token, api_keys[id].key_hash)}
    IN  IF ok = {} THEN Null ELSE CHOOSE id \in ok : TRUE

\* The auth middleware: the key id the request is served under, or Null (401).
Authenticate(tok) == IF tok = <<>> THEN Null ELSE verifyApiKey(tok[1])

\* ------------------------------------------------------------ encryption
\* encryptField: the ciphertext of a text under a key, with a fresh IV.
encryptField(text, key, iv) == [enc |-> TRUE, key |-> key, iv |-> iv, text |-> text]
\* A text stored as it is.
PlainField(text) == [enc |-> FALSE, key |-> Null, iv |-> 0, text |-> text]
\* decryptField throws unless the field was encrypted under the key.
DecryptThrows(field, key) == ~field.enc \/ field.key # key
decryptField(field, key) == field.text
\* What the data column holds: the ciphertext of an encrypted field, the text
\* of one stored as it is.
Ciphertext == <<"ciphertext">>
RawColumn(field) == IF field.enc THEN Ciphertext ELSE field.text
\* JSON.parse throws a SyntaxError on a ciphertext.
ParseThrows(text) == text = Ciphertext

\* ----------------------------------------------------------- quick filters
\* String.toLowerCase over the letters in use.
LowerChar(c) ==
    CASE c = "Q" -> "q" [] c = "B" -> "b" [] c = "H" -> "h" [] c = "T" -> "t"
      [] c = "R" -> "r" [] c = "L" -> "l" [] c = "O" -> "o" [] c = "D" -> "d"
      [] OTHER -> c

toLowerCaseIdentity(str) == str

toLowerCase(str) == [i \in 1..Len(str) |-> LowerChar(str[i])]

\* String.includes.
includes(str, sub) ==
    \E i \in 0..(Len(str) - Len(sub)) : \A j \in 1..Len(sub) : str[i + j] = sub[j]

\* The spelling of a field name.
KeyChars(k) ==
    CASE k = "title" -> <<"t", "i", "t", "l", "e">>
      [] k = "body" -> <<"b", "o", "d", "y">>
      [] k = "author_email" -> <<"a", "u", "t", "h", "o", "r", "_", "e", "m", "a", "i", "l">>
      [] k = "author_name" -> <<"a", "u", "t", "h", "o", "r", "_", "n", "a", "m", "e">>
      [] k = "attachments" -> <<"a", "t", "t", "a", "c", "h", "m", "e", "n", "t", "s">>
      [] k = "Body" -> <<"B", "o", "d", "y">>
      [] OTHER -> <<k>>

\* String(d.x || d.y || '')
FieldOr(d, k1, k2) ==
    IF k1 \in DOMAIN d /\ d[k1] # <<>> THEN d[k1]
    ELSE IF k2 \in DOMAIN d /\ d[k2] # <<>> THEN d[k2]
    ELSE <<>>

\* new Date(text).getTime(), in minutes: a date alone is midnight.
DateValue(text) == text[1] * MinutesPerDay + (IF Len(text) >= 3 THEN text[3] ELSE 0)

AfterStrictly(timestamp, val) == DateValue(timestamp) > DateValue(val)

\* new Date(row.timestamp) >= new Date(val)
AfterOrAt(timestamp, val) == DateValue(timestamp) >= DateValue(val)

matchesFilterUnknownRejects(row, filter) ==
    LET d == row.data
        val == filter.value
    IN  CASE filter.type = "time_after" -> AfterOrAt(row.timestamp, val)
          [] filter.type = "from_include" ->
                includes(toLowerCase(FieldOr(d, "author_email", "author_name")), toLowerCase(val))
          [] filter.type = "subject_include" ->
                includes(toLowerCase(FieldOr(d, "title", "title")), toLowerCase(val))
          [] filter.type = "exclude_sender" ->
                ~includes(toLowerCase(FieldOr(d, "author_email", "author_name")), toLowerCase(val))
          [] filter.type = "exclude_keyword" ->
                ~includes(toLowerCase(FieldOr(d, "title", "title")), toLowerCase(val))
          [] filter.type = "has_attachment" ->
                "attachments" \in DOMAIN d /\ Len(d["attachments"]) > 0
          [] OTHER -> FALSE

matchesFilter(row, filter) ==
    LET d == row.data
        val == filter.value
    IN  CASE filter.type = "time_after" -> AfterOrAt(row.timestamp, val)
          [] filter.type = "from_include" ->
                includes(toLowerCase(FieldOr(d, "author_email", "author_name")), toLowerCase(val))
          [] filter.type = "subject_include" ->
                includes(toLowerCase(FieldOr(d, "title", "title")), toLowerCase(val))
          [] filter.type = "exclude_sender" ->
                ~includes(toLowerCase(FieldOr(d, "author_email", "author_name")), toLowerCase(val))
          [] filter.type = "exclude_keyword" ->
                ~includes(toLowerCase(FieldOr(d, "title", "title")), toLowerCase(val))
          [] filter.type = "has_attachment" ->
                "attachments" \in DOMAIN d /\ Len(d["attachments"]) > 0
          [] OTHER -> TRUE

HideFieldsCaseSensitive(row, hideFields) ==
    [row EXCEPT !.data = [k \in {f \in DOMAIN row.data :
                                   KeyChars(f) \notin hideFields} |-> row.data[k]]]

\* The row with the hidden fields removed from its data.
HideFields(row, hideFields) ==
    [row EXCEPT !.data = [k \in {f \in DOMAIN row.data :
                                   toLowerCase(KeyChars(f)) \notin hideFields} |-> row.data[k]]]

applyFiltersAllEnabled(rows, fs) ==
    LET enabledFilters == fs
        hideFields == {toLowerCase(f.value) : f \in {g \in enabledFilters : g.type = "hide_field"}}
        rowFilters == {f \in enabledFilters : f.type # "hide_field"}
        result == SelectSeq(rows, LAMBDA row : \A f \in rowFilters : matchesFilter(row, f))
    IN  IF enabledFilters = {} THEN rows
        ELSE IF hideFields = {} THEN result
        ELSE [i \in 1..Len(result) |-> HideFields(result[i], hideFields)]

applyFilters(rows, fs) ==
    LET enabledFilters == {f \in fs : f.enabled # 0}
        hideFields == {toLowerCase(f.value) : f \in {g \in enabledFilters : g.type = "hide_field"}}
        rowFilters == {f \in enabledFilters : f.type # "hide_field"}
        result == SelectSeq(rows, LAMBDA row : \A f \in rowFilters : matchesFilter(row, f))
    IN  IF enabledFilters = {} THEN rows
        ELSE IF hideFields = {} THEN result
        ELSE [i \in 1..Len(result) |-> HideFields(result[i], hideFields)]

\* SELECT * FROM filters WHERE source = ? AND enabled = 1
EnabledFilters(source) == {f \in filters : f.source = source /\ f.enabled = 1}

\* ------------------------------------------------------------- cache reads
\* expires_at IS NULL OR expires_at > datetime('now'): a text comparison.
NotExpired(expires_at) ==
    expires_at = <<>> \/ TextCompare(expires_at, datetime(now)) > 0

WithinBoundaryIgnored(timestamp, boundary) == TRUE

\* timestamp >= boundary.after, when the boundary has an after date.
WithinBoundary(timestamp, boundary) ==
    boundary.after = <<>> \/ TextCompare(timestamp, boundary.after) >= 0

\* The stored data column as the reader takes it: decrypted when a key is
\* configured and decryption succeeds, as stored otherwise.
ReadData(field) ==
    IF encryptionKey # <<>> /\ ~DecryptThrows(field, encryptionKey[1])
    THEN decryptField(field, encryptionKey[1])
    ELSE RawColumn(field)

\* readFromCache of the app API throws: JSON.parse fails on a selected row.
CacheReadThrows(source) ==
    \E i \in 1..Len(cached_data) :
        /\ cached_data[i].source = source
        /\ WithinBoundary(cached_data[i].timestamp, config[source].boundary)
        /\ NotExpired(cached_data[i].expires_at)
        /\ ParseThrows(ReadData(cached_data[i].data))

\* The item ids stored in these runs, in the order of SQLite's BINARY
\* collation.
ItemIdOrder == <<"demo_1", "demo_2", "g1", "m0", "m1", "m2", "m3", "m4", "m5", "m6", "m9">>
ItemRank(id) == CHOOSE i \in 1..Len(ItemIdOrder) : ItemIdOrder[i] = id

\* The rows of a SELECT ... WHERE source = ? with no ORDER BY: SQLite walks
\* the index of UNIQUE(source, source_item_id), so they come ordered by
\* source_item_id (rows of one id, which the constraint excludes, in row
\* order).
IndexOrder(rows) ==
    LET before(j, k) == \/ ItemRank(rows[j].source_item_id) < ItemRank(rows[k].source_item_id)
                        \/ /\ rows[j].source_item_id = rows[k].source_item_id
                           /\ j < k
    IN  [i \in 1..Len(rows) |->
            rows[CHOOSE k \in 1..Len(rows) :
                    Cardinality({j \in 1..Len(rows) : before(j, k)}) = i - 1]]

\* readFromCache of the app API.
readFromCache(source) ==
    LET hit == IndexOrder(SelectSeq(cached_data, LAMBDA r :
                   /\ r.source = source
                   /\ WithinBoundary(r.timestamp, config[source].boundary)
                   /\ NotExpired(r.expires_at)))
    IN  [i \in 1..Len(hit) |->
            [source |-> hit[i].source, source_item_id |-> hit[i].source_item_id,
             type |-> hit[i].type, timestamp |-> hit[i].timestamp,
             data |-> JSON_parse(ReadData(hit[i].data))]]

\* ---------------------------------------------------------------- pipeline
\* Pipeline runs made in one behaviour.
MaxRuns == 2

\* An operator's property bag; "", {} and <<>> are absent properties.
NoProps ==
    [source |-> "", type |-> "", fields |-> {}, field |-> "", op |-> "", value |-> <<>>,
     pattern |-> "", replacement |-> <<>>, action_type |-> ""]

\* An operator declaration: name: kind { properties }.
Decl(type, properties) == [type |-> type, properties |-> properties @@ NoProps]

PullEmails == Decl("pull", [source |-> "gmail", type |-> "email"])
SelectTitle == Decl("select", [fields |-> {"title"}])
SelectFields == Decl("select", [fields |-> {"title", "body"}])
RedactX == Decl("transform", [field |-> "body", pattern |-> "x", replacement |-> <<"#">>])
FilterQ4 == Decl("filter", [field |-> "title", op |-> "contains", value |-> <<"Q", "4">>])
StoreLocally == Decl("store", [k \in {} |-> ""])
StageIt == Decl("stage", [source |-> "gmail", action_type |-> "send_email"])

\* A parsed manifest: the graph and the declared operators.
Manifest(graph, operators) == [graph |-> graph, operators |-> operators]

\* The manifests a run is given.
Manifests ==
    [readonly |-> Manifest(<<"pull_emails", "select_fields">>,
                     [pull_emails |-> PullEmails, select_fields |-> SelectTitle]),
     redacted |-> Manifest(<<"pull_emails", "select_fields", "redact_ssn">>,
                     [pull_emails |-> PullEmails, select_fields |-> SelectFields,
                      redact_ssn |-> RedactX]),
     stored |-> Manifest(<<"pull_emails", "filter_q4", "store_locally">>,
                     [pull_emails |-> PullEmails, filter_q4 |-> FilterQ4,
                      store_locally |-> StoreLocally]),
     draft |-> Manifest(<<"pull_emails", "stage_it">>,
                     [pull_emails |-> PullEmails, stage_it |-> StageIt]),
     undeclared |-> Manifest(<<"pull_emails", "magic_op">>, [pull_emails |-> PullEmails]),
     stage_first |-> Manifest(<<"stage_it", "pull_emails">>,
                     [pull_emails |-> PullEmails, stage_it |-> StageIt]),
     no_source |-> Manifest(<<"bad_pull", "select_fields">>,
                     [bad_pull |-> Decl("pull", [type |-> "email"]),
                      select_fields |-> SelectTitle]),
     unregistered |-> Manifest(<<"pull_emails", "magic_op">>,
                     [pull_emails |-> PullEmails, magic_op |-> Decl("magic", [k \in {} |-> ""])]),
     slack |-> Manifest(<<"pull_chat", "select_fields">>,
                     [pull_chat |-> Decl("pull", [source |-> "slack"]),
                      select_fields |-> SelectTitle]),
     two_pulls |-> Manifest(<<"pull_emails", "pull_chat", "select_fields">>,
                     [pull_emails |-> PullEmails,
                      pull_chat |-> Decl("pull", [source |-> "slack"]),
                      select_fields |-> SelectTitle])]

\* The kinds the operator registry holds.
RegisteredOperators == {"pull", "select", "filter", "transform", "stage", "store"}

\* `${nodeName}:${opDecl.type}`
NameKind(nodeName, type) == <<nodeName, ":", type>>

\* The locals of an executePipeline call before its first statement; runs
\* is the number of the call, awaiting the operator.execute it awaits.
NoPipeline ==
    [status |-> "idle", manifest |-> Null, cacheOnly |-> FALSE, pos |-> 0, runs |-> 0,
     currentData |-> <<>>, operatorsApplied |-> <<>>, itemsFetched |-> 0,
     actionResult |-> <<>>, result |-> <<>>, executed |-> <<>>, awaiting |-> <<>>]

\* The validation loop of executePipeline: the first graph position that
\* names an undeclared operator or holds a stage that is not last; 0 if none.
FirstInvalidNone(manifest) == 0

FirstInvalid(manifest) ==
    LET n == Len(manifest.graph)
        bad == {i \in 1..n :
                   \/ manifest.graph[i] \notin DOMAIN manifest.operators
                   \/ /\ manifest.operators[manifest.graph[i]].type = "stage"
                      /\ i < n}
    IN  IF bad = {} THEN 0 ELSE CHOOSE i \in bad : \A j \in bad : i <= j

\* sourceConfig?.boundary ?? {}
BoundaryOf(source) ==
    IF source \in DOMAIN config THEN config[source].boundary ELSE EmptyBoundary

\* readFromCache of the pull operator.
pullReadFromCache(source, type) ==
    LET hit == IndexOrder(SelectSeq(cached_data, LAMBDA r :
                   /\ r.source = source
                   /\ (type # "" => r.type = type)
                   /\ WithinBoundary(r.timestamp, BoundaryOf(source))
                   /\ NotExpired(r.expires_at)))
    IN  [i \in 1..Len(hit) |->
            [source |-> hit[i].source, source_item_id |-> hit[i].source_item_id,
             type |-> hit[i].type, timestamp |-> hit[i].timestamp,
             data |-> JSON_parse(ReadData(hit[i].data))]]

\* readFromCache of the pull operator throws: JSON.parse fails on a row.
PullReadThrows(source, type) ==
    \E i \in 1..Len(cached_data) :
        /\ cached_data[i].source = source
        /\ (type # "" => cached_data[i].type = type)
        /\ WithinBoundary(cached_data[i].timestamp, BoundaryOf(source))
        /\ NotExpired(cached_data[i].expires_at)
        /\ ParseThrows(ReadData(cached_data[i].data))

\* What operator.execute gave: a row list, an ActionResult, or an exception.
Rows(rows) == [kind |-> "rows", rows |-> rows, action |-> <<>>]
Action(result) == [kind |-> "action", rows |-> <<>>, action |-> <<result>>]
Thrown == [kind |-> "throw", rows |-> <<>>, action |-> <<>>]

\* pullOperator.execute; answer is what connector.fetch gives on a live pull.
pullExecute(props, cacheOnly, answer) ==
    IF props.source = "" THEN Thrown
    ELSE IF cacheOnly
    THEN (IF PullReadThrows(props.source, props.type) THEN Thrown
          ELSE Rows(pullReadFromCache(props.source, props.type)))
    ELSE IF props.source \notin connectorRegistry THEN Thrown
    ELSE IF answer = Throw THEN Thrown
    ELSE Rows(answer.rows)

\* The live pull calls connector.fetch.
PullFetches(props, cacheOnly) ==
    props.source # "" /\ ~cacheOnly /\ props.source \in connectorRegistry

\* select: narrows every row's field map to the listed fields.
selectExecute(input, props) ==
    IF props.fields = {} THEN Thrown
    ELSE Rows([i \in 1..Len(input) |->
                 [input[i] EXCEPT !.data =
                     [k \in DOMAIN input[i].data \cap props.fields |-> input[i].data[k]]]])

\* filter: keeps the rows whose field passes the comparison.
filterExecute(input, props) ==
    IF props.field = "" \/ props.op = "" THEN Thrown
    ELSE Rows(SelectSeq(input, LAMBDA r :
                 LET v == IF props.field \in DOMAIN r.data THEN r.data[props.field] ELSE <<>>
                 IN  CASE props.op = "eq" -> v = props.value
                       [] props.op = "neq" -> v # props.value
                       [] props.op = "contains" -> includes(toLowerCase(v), toLowerCase(props.value))
                       [] OTHER -> TRUE))

\* Every occurrence of a character replaced by a text.
RECURSIVE ReplaceAll(_, _, _)
ReplaceAll(text, pattern, replacement) ==
    IF text = <<>> THEN <<>>
    ELSE (IF Head(text) = pattern THEN replacement ELSE <<Head(text)>>)
            \o ReplaceAll(Tail(text), pattern, replacement)

\* transform (redact): rewrites the field's text, keeps every row.
transformExecute(input, props) ==
    IF props.field = "" \/ props.pattern = "" THEN Thrown
    ELSE Rows([i \in 1..Len(input) |->
                 IF props.field \in DOMAIN input[i].data
                 THEN [input[i] EXCEPT !.data[props.field] =
                          ReplaceAll(@, props.pattern, props.replacement)]
                 ELSE input[i]])

\* store: upserts the rows into cached_data and passes them through.
storeExecute(input) == Rows(input)

\* stage: the row stream becomes a staged write request, not data.
stageExecute(props, actionId) ==
    IF actionId \in DOMAIN staging THEN Thrown
    ELSE Action([success |-> TRUE, message |-> "staged", actionId |-> actionId])

\* operator.execute(currentData, context, opDecl.properties)
Execute(type, input, props, cacheOnly, answer, actionId) ==
    CASE type = "pull" -> pullExecute(props, cacheOnly, answer)
      [] type = "select" -> selectExecute(input, props)
      [] type = "filter" -> filterExecute(input, props)
      [] type = "transform" -> transformExecute(input, props)
      [] type = "store" -> storeExecute(input)
      [] type = "stage" -> stageExecute(props, actionId)

\* ------------------------------------------------------------------- audit
\* The id the database gives a row inserted without one: one more than the
\* largest id in the table.
NextRowId(table) ==
    IF table = <<>> THEN 1
    ELSE 1 + (CHOOSE m \in {table[i].id : i \in 1..Len(table)} :
                 \A i \in 1..Len(table) : table[i].id <= m)

AuditEntry(event, source, actionId, result, initiatedBy, purpose, count) ==
    [id |-> NextRowId(audit_log), timestamp |-> now, event |-> event, source |-> source,
     actionId |-> actionId, result |-> result, initiatedBy |-> initiatedBy,
     purpose |-> purpose, resultsCount |-> count]

logActionProposed(actionId, source, action_type, purpose, initiatedBy) ==
    AuditEntry("action_proposed", source, actionId, Null, initiatedBy, purpose, 0)
        @@ [action_type |-> action_type]
logActionApproved(actionId, initiatedBy, source) ==
    AuditEntry("action_approved", source, actionId, Null, initiatedBy, Null, 0)
logActionRejected(actionId, initiatedBy, source) ==
    AuditEntry("action_rejected", source, actionId, Null, initiatedBy, Null, 0)
logPull(source, purpose, resultsCount, initiatedBy) ==
    AuditEntry("data_pull", source, Null, Null, initiatedBy, purpose, resultsCount)
logActionCommitted(actionId, source, result) ==
    AuditEntry("action_committed", source, actionId, result, Null, Null, 0)

\* --------------------------------------------------------------- responses
Call(op, actionId, decision, source, data) ==
    [n |-> nreq + 1, op |-> op, actionId |-> actionId, decision |-> decision,
     source |-> source, data |-> data]

Resp(n, op, code, actionId, status, data) ==
    [n |-> n, op |-> op, code |-> code, actionId |-> actionId, status |-> status,
     data |-> data]

\* ------------------------------------------------------------ token vault
\* The secret the server hands to its TokenManager, and the secret of a
\* TokenManager built over the same database with another key.
masterSecret == encryptionKey[1]
Secrets == {masterSecret, "other-key"}

VaultSources == {"gmail", "github"}

\* TokenData: access_token, and the optional fields as <<>> or <<v>>.
TokenData(access, refresh, type, expires, scopes, info) ==
    [access_token |-> access, refresh_token |-> refresh, token_type |-> type,
     expires_at |-> expires, scopes |-> scopes, account_info |-> info]

\* Token data handed to storeToken.
TokenDatas ==
    { TokenData("at1", <<"rt1">>, <<"Bearer">>, <<toISOString(MinutesPerDay)>>, <<"read">>,
                <<[email |-> "a"]>>),
      TokenData("at2", <<>>, <<>>, <<>>, <<>>, <<>>),
      TokenData("at2", <<"">>, <<"MAC">>, <<>>, <<"">>, <<EmptyObject>>) }

\* The VALUES of storeToken's INSERT.
TokenRow(source, data, key, iv) ==
    [source |-> source,
     access_token |-> encryptField(data.access_token, key, iv),
     refresh_token |-> IF data.refresh_token # <<>> /\ data.refresh_token[1] # ""
                       THEN <<encryptField(data.refresh_token[1], key, iv + 1)>>
                       ELSE <<>>,
     token_type |-> IF data.token_type = <<>> THEN "Bearer" ELSE data.token_type[1],
     expires_at |-> data.expires_at,
     scopes |-> IF data.scopes = <<>> THEN "" ELSE data.scopes[1],
     account_info |-> JSON_stringify(IF data.account_info = <<>> THEN EmptyObject
                                     ELSE data.account_info[1]),
     created_at |-> datetime(now),
     updated_at |-> datetime(now)]

\* The number of IVs storeToken draws.
TokenIvs(data) == IF data.refresh_token # <<>> /\ data.refresh_token[1] # "" THEN 2 ELSE 1

\* The position of the source's first row in the table, or 0.
TokenIndex(table, source) ==
    LET hit == {i \in 1..Len(table) : table[i].source = source}
    IN  IF hit = {} THEN 0 ELSE CHOOSE i \in hit : \A j \in hit : i <= j

storeTokenInsertOnly(table, source, data, key, iv) ==
    Append(table, TokenRow(source, data, key, iv))

\* storeToken: INSERT ... ON CONFLICT(source) DO UPDATE SET every column
\* but source and created_at.
storeToken(table, source, data, key, iv) ==
    LET new == TokenRow(source, data, key, iv)
        i == TokenIndex(table, source)
    IN  IF i = 0 THEN Append(table, new)
        ELSE [table EXCEPT ![i] = [new EXCEPT !.created_at = table[i].created_at]]

\* getToken throws when a decryptField call throws.
GetTokenThrows(row, key) ==
    \/ DecryptThrows(row.access_token, key)
    \/ row.refresh_token # <<>> /\ DecryptThrows(row.refresh_token[1], key)

getTokenRawOnFailure(table, source, key) ==
    LET i == TokenIndex(table, source)
        row == table[i]
    IN  IF i = 0 THEN [kind |-> "null", token |-> <<>>]
        ELSE [kind |-> "token",
              token |-> <<TokenData(decryptField(row.access_token, key),
                                    IF row.refresh_token # <<>>
                                    THEN <<decryptField(row.refresh_token[1], key)>>
                                    ELSE <<>>,
                                    <<row.token_type>>, row.expires_at, <<row.scopes>>,
                                    <<JSON_parse(row.account_info)>>)>>]

\* getToken: null, the token data of the source's row, or an exception.
getToken(table, source, key) ==
    LET i == TokenIndex(table, source)
        row == table[i]
    IN  IF i = 0 THEN [kind |-> "null", token |-> <<>>]
        ELSE IF GetTokenThrows(row, key) THEN [kind |-> "throw", token |-> <<>>]
        ELSE [kind |-> "token",
              token |-> <<TokenData(decryptField(row.access_token, key),
                                    IF row.refresh_token # <<>>
                                    THEN <<decryptField(row.refresh_token[1], key)>>
                                    ELSE <<>>,
                                    <<row.token_type>>, row.expires_at, <<row.scopes>>,
                                    <<JSON_parse(row.account_info)>>)>>]

\* deleteToken: DELETE FROM oauth_tokens WHERE source = ?
deleteToken(table, source) == SelectSeq(table, LAMBDA r : r.source # source)

updateAccessTokenUpsert(table, source, accessToken, expiresAt, key, iv) ==
    storeToken(table, source, TokenData(accessToken, <<>>, <<>>, expiresAt, <<>>, <<>>), key, iv)

\* updateAccessToken: UPDATE oauth_tokens SET access_token, expires_at,
\* updated_at WHERE source = ?
updateAccessToken(table, source, accessToken, expiresAt, key, iv) ==
    [i \in 1..Len(table) |->
        IF table[i].source = source
        THEN [table[i] EXCEPT !.access_token = encryptField(accessToken, key, iv),
                              !.expires_at = expiresAt,
                              !.updated_at = datetime(now)]
        ELSE table[i]]

\* The credential record a first authorization of gmail left in the table:
\* what the gmail callback stores, with GMAIL_SCOPES.join(' ') as its scopes
\* and one IV drawn for each of its two ciphertexts.
StoredTokens ==
    << [source |-> "gmail",
        access_token |-> encryptField("at0", masterSecret, 1),
        refresh_token |-> <<encryptField("rt0", masterSecret, 2)>>,
        token_type |-> "Bearer", expires_at |-> <<toISOString(2 * MinutesPerHour)>>,
        scopes |-> "gmail.readonly gmail.compose", account_info |-> JSON_stringify([email |-> "a"]),
        created_at |-> datetime(0), updated_at |-> datetime(0)] >>

\* -------------------------------------------------------------------- Init
\* The cached_data table found in peekaboo.db at startup: empty on a first
\* run, or rows left by an earlier run under an earlier configuration (no TTL,
\* no encryption key for gmail, cache enabled for github).
StoredRow(source, item, ts, field) ==
    [source |-> source, source_item_id |-> item, type |-> "email", timestamp |-> ts,
     data |-> field, cached_at |-> datetime(0), expires_at |-> <<>>]

LeftoverStores ==
    { <<>>,
      << StoredRow("gmail", "m0", toISOString(MinutesPerDay), PlainField(JSON_stringify(DataQ4))),
         StoredRow("gmail", "m9", toISOString(0), PlainField(JSON_stringify(DataQ4))),
         StoredRow("github", "g1", toISOString(MinutesPerDay),
                   encryptField(JSON_stringify(DataHi), encryptionKey[1], 0)) >> }

\* The cache settings a configuration can give the two sources.
CacheSettings == SUBSET {"gmail", "github"}

\* History of the writes that left a store.
WrittenBefore(store) ==
    [key \in {<<store[i].source, store[i].source_item_id>> : i \in 1..Len(store)} |->
        LET i == CHOOSE j \in 1..Len(store) :
                    <<store[j].source, store[j].source_item_id>> = key
        IN  [type |-> store[i].type, timestamp |-> store[i].timestamp,
             data |-> JSON_parse(store[i].data.text), expires_at |-> store[i].expires_at]]

\* The api_keys table found at startup: the agent's key, and a second key
\* which the owner has revoked already or not.
KeyTable(enabled) ==
    [agent |-> [key_hash |-> hashSync("pk_good"), enabled |-> 1],
     other |-> [key_hash |-> hashSync("pk_other"), enabled |-> enabled]]

\* The filters table found at startup.
StoredFilters ==
    {[id |-> "f1", source |-> "gmail", type |-> "subject_include",
      value |-> <<"Q", "4">>, enabled |-> 1],
     [id |-> "f2", source |-> "github", type |-> "hide_field",
      value |-> <<"B", "o", "d", "y">>, enabled |-> 1],
     [id |-> "f3", source |-> "github", type |-> "exclude_keyword",
      value |-> <<"h">>, enabled |-> 0]}

\* owner_auth of the two sources: both with their OAuth client's id and
\* secret, or gmail without its secret and github without its id.
Credentials ==
    [gmail |-> [clientId |-> "id", clientSecret |-> "secret"],
     github |-> [clientId |-> "id", clientSecret |-> "secret"]]
PartCredentials ==
    [gmail |-> [clientId |-> "id", clientSecret |-> ""],
     github |-> [clientId |-> "", clientSecret |-> "secret"]]

InitLoaded(store, keys, fs, ttl, tokens, connectors, auth, cached) ==
    /\ cacheTtl = ttl
    /\ cacheSources = cached
    /\ ownerAuth = auth
    /\ wired = FALSE
    /\ api_keys = keys
    /\ oauth_tokens = tokens
    /\ refreshing = {}
    /\ staging = [id \in {} |-> Null]
    /\ audit_log = <<>>
    /\ connectorRegistry = connectors
    /\ now = 0
    /\ nticks = 0
    /\ nreq = 0
    /\ lastCall = [n |-> 0, op |-> "none", actionId |-> Null, decision |-> Null,
                   source |-> Null, data |-> <<>>]
    /\ lastResp = Resp(0, "none", 0, Null, Null, <<>>)
    /\ resolving = {}
    /\ execLog = <<>>
    /\ approveIssued = {}
    /\ filters = fs
    /\ cached_data = store
    \* the IVs of the stored credential records were drawn before
    /\ ivs = LET drawn == UNION {{tokens[i].access_token.iv} \cup
                                  {tokens[i].refresh_token[j].iv :
                                      j \in DOMAIN tokens[i].refresh_token} :
                                  i \in 1..Len(tokens)}
             IN  IF drawn = {} THEN 0
                 ELSE CHOOSE m \in drawn : \A n \in drawn : n <= m
    /\ nsync = 0
    /\ syncing = [s \in DOMAIN config |-> 0]
    /\ pulling = {}
    /\ fetchLog = <<>>
    /\ lastFetched = [n |-> 0, rows |-> <<>>]
    /\ lastWrite = WrittenBefore(store)
    /\ started = FALSE
    /\ timers = EmptyBag
    /\ syncErrors = <<>>
    /\ pipeline = <<>>
    /\ admitted = EmptyBag
    /\ pendingStates = [s \in {} |-> Null]
    /\ exchanging = {}
    /\ issuedStates = [s \in {} |-> Null]
    /\ acceptedCallbacks = <<>>

\* Startup under the configuration with gmail cached and github live.
InitInstalled(store, keys, fs, ttl, tokens, connectors, auth) ==
    InitLoaded(store, keys, fs, ttl, tokens, connectors, auth, {"gmail"})

\* Startup with both sources authorized earlier.
InitConfigured(store, keys, fs, ttl) ==
    InitInstalled(store, keys, fs, ttl, StoredTokens, {"gmail", "github"}, Credentials)

\* Startup under the configuration the runs share: a cache TTL of one hour.
InitWith(store, keys, fs) == InitConfigured(store, keys, fs, <<"1", "h">>)

Init ==
    \E store \in LeftoverStores, enabled \in {0, 1} :
        InitWith(store, KeyTable(enabled), StoredFilters)

\* --------------------------------------------------------- auth middleware
\* The routes behind the middleware.
AgentOps == {"pull", "propose"}

\* A request the middleware has let through: the key id it set on the
\* context, kept while the handler awaits the request's body.
Admission(op, tok, key) == [op |-> op, tok |-> tok, key |-> key]

\* The handler of an admitted request resumes: c.get('apiKey').
Admitted(op, tok) == {a \in BagToSet(admitted) : a.op = op /\ a.tok = tok}
Resume(a) == admitted' = admitted (-) SetToBag({a})

\* The middleware of the agent API: the header and the key are checked, a
\* refused request is answered 401, an accepted one goes on to its handler.
AuthMiddleware(tok, op) ==
    /\ Budget
    /\ op = "pull" => CacheBudget
    /\ UNCHANGED <<api_keys, cacheTtl, cacheSources, ownerAuth, pipeline, oauthState, vaultState, connectorRegistry, now,
                   nticks, filters, stagingState, cacheState, pullState, audit_log>>
    /\ IF Authenticate(tok) = Null THEN
           /\ nreq' = nreq + 1
           /\ lastCall' = Call(op, Null, Null, Null,
                               IF op = "pull" THEN <<tok, "", Null>> ELSE <<>>)
           /\ lastResp' = Resp(nreq + 1, op, 401, Null, Null, <<>>)
           /\ UNCHANGED admitted
       ELSE
           /\ admitted' = admitted (+) SetToBag({Admission(op, tok, Authenticate(tok))})
           /\ UNCHANGED <<nreq, lastCall, lastResp>>

\* ----------------------------------------------------------- POST /propose
ProposedRowApproved(source, action_type, action_data, purpose) ==
    [manifest_id |-> "", source |-> source, action_type |-> action_type,
     action_data |-> JSON_stringify(IF action_data = <<>> THEN EmptyObject ELSE action_data[1]),
     purpose |-> purpose, status |-> "approved", proposed_at |-> now, resolved_at |-> Null]

\* The row the handler inserts.
ProposedRow(source, action_type, action_data, purpose) ==
    [manifest_id |-> "", source |-> source, action_type |-> action_type,
     action_data |-> JSON_stringify(IF action_data = <<>> THEN EmptyObject ELSE action_data[1]),
     purpose |-> purpose, status |-> "pending", proposed_at |-> now, resolved_at |-> Null]

\* INSERT INTO staging: action_id is the table's key, a second row under a
\* stored id is refused.
InsertStaging(actionId, row) ==
    /\ actionId \notin DOMAIN staging
    /\ staging' = [id \in DOMAIN staging \cup {actionId} |->
                      IF id = actionId THEN row ELSE staging[id]]

\* The handler from the arrival of the request's body to its response.
Propose(tok, source, action_type, action_data, purpose) ==
    \E a \in Admitted("propose", tok) :
    /\ Resume(a)
    /\ nreq' = nreq + 1
    /\ lastCall' = Call("propose", Null, Null, source, action_data)
    /\ UNCHANGED <<api_keys, cacheTtl, cacheSources, ownerAuth, pipeline, oauthState, vaultState, connectorRegistry, now, nticks, resolving, execLog, approveIssued,
                   filters, cacheState, pullState>>
    /\ LET key == a.key IN
       IF purpose = "" \/ source = "" \/ action_type = "" THEN
           /\ lastResp' = Resp(nreq + 1, "propose", 400, Null, Null, <<>>)
           /\ UNCHANGED <<staging, audit_log>>
       ELSE \E actionId \in ActionIds :
           IF actionId \in DOMAIN staging THEN
               \* the INSERT throws, the request ends as a server error
               /\ lastResp' = Resp(nreq + 1, "propose", 500, Null, Null, <<>>)
               /\ UNCHANGED <<staging, audit_log>>
           ELSE
               /\ InsertStaging(actionId, ProposedRow(source, action_type, action_data, purpose))
               /\ audit_log' = Append(audit_log,
                                  logActionProposed(actionId, source, action_type, purpose,
                                                    <<"app", key>>))
               /\ lastResp' = Resp(nreq + 1, "propose", 200, actionId, "pending_review", <<>>)

\* --------------------------------- POST /api/staging/:actionId/resolve
\* The status the handler writes for a decision.
ResolveStatus(decision) == IF decision = "approve" THEN "approved" ELSE "rejected"

\* UPDATE staging SET status = ?, resolved_at = datetime('now') WHERE action_id = ?
\* The handler runs it on every call, whatever the row's status is.
UpdateResolved(actionId, status) ==
    [id \in DOMAIN staging |->
        IF id = actionId
        THEN [staging[id] EXCEPT !.status = status, !.resolved_at = now]
        ELSE staging[id]]

ShouldExecuteAnyDecision(actionId, decision) ==
    /\ actionId \in DOMAIN staging
    /\ staging[actionId].source \in connectorRegistry

\* The handler calls the connector when the decision is approve, the row
\* exists and its source has a connector.
ShouldExecute(actionId, decision) ==
    /\ decision = "approve"
    /\ actionId \in DOMAIN staging
    /\ staging[actionId].source \in connectorRegistry

\* The arguments of the connector.executeAction call.
ExecCall(actionId) ==
    [actionId |-> actionId, actionType |-> "draft_email",
     actionData |-> JSON_parse(staging[actionId].action_data)]

ResolveEntryAlwaysApproved(actionId, decision, actionSource) ==
    logActionApproved(actionId, "owner", actionSource)

\* The audit entry the handler writes for a decision.
ResolveEntry(actionId, decision, actionSource) ==
    IF decision = "approve"
    THEN logActionApproved(actionId, "owner", actionSource)
    ELSE logActionRejected(actionId, "owner", actionSource)

\* The handler up to its await of connector.executeAction (or to its end).
ResolveBegin(actionId, decision) ==
    LET actionSource == IF actionId \in DOMAIN staging /\ staging[actionId].source # ""
                        THEN staging[actionId].source ELSE Null
        status == ResolveStatus(decision)
    IN
    /\ Budget
    /\ nreq' = nreq + 1
    /\ lastCall' = Call("resolve", actionId, decision, actionSource, <<>>)
    /\ UNCHANGED <<api_keys, cacheTtl, cacheSources, ownerAuth, pipeline, oauthState, admitted, vaultState, connectorRegistry, now, nticks, filters, cacheState, pullState>>
    /\ approveIssued' = IF decision = "approve" THEN approveIssued \cup {actionId}
                        ELSE approveIssued
    /\ staging' = UpdateResolved(actionId, status)
    /\ audit_log' = Append(audit_log, ResolveEntry(actionId, decision, actionSource))
    /\ IF ShouldExecute(actionId, decision)
       THEN /\ execLog' = Append(execLog, ExecCall(actionId))
            /\ resolving' = resolving \cup
                   {[n |-> nreq + 1, actionId |-> actionId,
                     source |-> staging[actionId].source,
                     was |-> staging[actionId].status]}
            /\ UNCHANGED lastResp
       ELSE /\ lastResp' = Resp(nreq + 1, "resolve", 200, actionId, status, <<>>)
            /\ UNCHANGED <<execLog, resolving>>

\* UPDATE staging SET status = 'committed' WHERE action_id = ?
UpdateCommitted(actionId) ==
    [id \in DOMAIN staging |->
        IF id = actionId THEN [staging[id] EXCEPT !.status = "committed"] ELSE staging[id]]

\* The staging table once connector.executeAction has settled: the try block
\* commits after a returned result, the catch block writes nothing.
AfterExecute(actionId, outcome) ==
    IF outcome = "throw" THEN staging ELSE UpdateCommitted(actionId)

\* The handler from the settling of connector.executeAction to its response.
ResolveFinish(n, outcome) ==
    \E r \in resolving :
    /\ r.n = n
    /\ resolving' = resolving \ {r}
    /\ staging' = AfterExecute(r.actionId, outcome)
    /\ audit_log' = Append(audit_log,
           logActionCommitted(r.actionId, r.source,
                              IF outcome = "success" THEN "success" ELSE "failure"))
    /\ lastResp' = Resp(r.n, "resolve", 200, r.actionId, "approved", <<>>)
    /\ UNCHANGED <<api_keys, cacheTtl, cacheSources, ownerAuth, pipeline, oauthState, admitted, vaultState, connectorRegistry, now, nticks, nreq, lastCall, execLog, approveIssued,
                   filters, cacheState, pullState>>

\* ------------------------------------ POST /api/staging/:actionId/edit
MergeExistingWins(existing, supplied) ==
    [k \in DOMAIN existing \cup DOMAIN supplied |->
        IF k \in DOMAIN existing THEN existing[k] ELSE supplied[k]]

\* { ...existing, ...body.action_data }
Merge(existing, supplied) ==
    [k \in DOMAIN existing \cup DOMAIN supplied |->
        IF k \in DOMAIN supplied THEN supplied[k] ELSE existing[k]]

EditRefusalUnknownOnly(actionId) ==
    IF actionId \notin DOMAIN staging THEN 404 ELSE 0

EditRefusalSettledOnly(actionId) ==
    IF actionId \notin DOMAIN staging THEN 404
    ELSE IF staging[actionId].status \in {"committed", "rejected"} THEN 400
    ELSE 0

\* The status the handler refuses an edit with, 0 when it accepts it.
EditRefusal(actionId) ==
    IF actionId \notin DOMAIN staging THEN 404
    ELSE IF staging[actionId].status # "pending" THEN 400
    ELSE 0

Edit(actionId, body) ==
    /\ Budget
    /\ nreq' = nreq + 1
    /\ lastCall' = Call("edit", actionId, Null, Null, body)
    /\ UNCHANGED <<api_keys, cacheTtl, cacheSources, ownerAuth, pipeline, oauthState, admitted, vaultState, connectorRegistry, now, nticks, audit_log, resolving, execLog,
                   approveIssued, filters, cacheState, pullState>>
    /\ IF EditRefusal(actionId) # 0 THEN
           /\ lastResp' = Resp(nreq + 1, "edit", EditRefusal(actionId), actionId, Null, <<>>)
           /\ UNCHANGED staging
       ELSE
           LET existing == JSON_parse(staging[actionId].action_data)
               merged == Merge(existing, IF body = <<>> THEN EmptyObject ELSE body[1])
           IN  /\ staging' = [staging EXCEPT ![actionId].action_data = JSON_stringify(merged)]
               /\ lastResp' = Resp(nreq + 1, "edit", 200, actionId, Null, <<merged>>)

\* -------------------------------------------------------------- POST /pull
\* sourceConfig.cache?.enabled === true
CacheEnabled(source) == config[source].cache.enabled = TRUE

PullRefusalNoConnectorCheck(source, purpose) ==
    IF purpose = "" \/ source = "" THEN 400
    ELSE IF source \notin DOMAIN config THEN 404
    ELSE 0

\* The status the handler refuses a pull with before reading any data, 0 when
\* it serves it.
PullRefusal(source, purpose) ==
    IF purpose = "" \/ source = "" THEN 400
    ELSE IF source \notin DOMAIN config THEN 404
    ELSE IF ~CacheEnabled(source) /\ source \notin connectorRegistry THEN 404
    ELSE 0

\* The handler reads the cache, and calls no connector, iff the source's
\* cache is enabled.
ServeFromCacheIfAny(source) ==
    CacheEnabled(source) /\ \E i \in 1..Len(cached_data) : cached_data[i].source = source
ServeFromCache(source) == CacheEnabled(source)

FetchCallNoBoundary(source, by, n) ==
    [source |-> source, boundary |-> EmptyBoundary, by |-> by, n |-> n]

\* The arguments of a connector.fetch call.
FetchCall(source, by, n) ==
    [source |-> source, boundary |-> config[source].boundary, by |-> by, n |-> n]

PullRespondCountFetched(n, source, purpose, key, rows) ==
    LET filtered == applyFilters(rows, EnabledFilters(source))
    IN  /\ audit_log' = Append(audit_log, logPull(source, purpose, Len(rows), <<"app", key>>))
        /\ lastResp' = Resp(n, "pull", 200, Null, Len(rows), filtered)

\* The end of the handler: filter, log, respond.
PullRespond(n, source, purpose, key, rows) ==
    LET filtered == applyFilters(rows, EnabledFilters(source))
    IN  /\ audit_log' = Append(audit_log, logPull(source, purpose, Len(filtered), <<"app", key>>))
        /\ lastResp' = Resp(n, "pull", 200, Null, Len(rows), filtered)

\* The handler from the arrival of the request's body up to its await of
\* connector.fetch (or to its end).
Pull(tok, source, purpose) ==
    \E a \in Admitted("pull", tok) :
    /\ Resume(a)
    /\ nreq' = nreq + 1
    /\ lastCall' = Call("pull", Null, Null, source, <<tok, purpose, a.key>>)
    /\ UNCHANGED <<api_keys, cacheTtl, cacheSources, ownerAuth, pipeline, oauthState, vaultState, connectorRegistry, now, nticks, filters, stagingState, cacheState,
                   lastFetched>>
    /\ IF PullRefusal(source, purpose) # 0 THEN
           /\ lastResp' = Resp(nreq + 1, "pull", PullRefusal(source, purpose),
                               Null, Null, <<>>)
           /\ UNCHANGED <<audit_log, pulling, fetchLog>>
       ELSE IF ServeFromCache(source) THEN
           /\ IF CacheReadThrows(source)
              THEN /\ lastResp' = Resp(nreq + 1, "pull", 500, Null, Null, <<>>)
                   /\ UNCHANGED audit_log
              ELSE PullRespond(nreq + 1, source, purpose, a.key,
                               readFromCache(source))
           /\ UNCHANGED <<pulling, fetchLog>>
       ELSE
           /\ fetchLog' = Append(fetchLog, FetchCall(source, "pull", nreq + 1))
           /\ pulling' = pulling \cup {[n |-> nreq + 1, source |-> source,
                                        purpose |-> purpose, key |-> a.key]}
           /\ UNCHANGED <<audit_log, lastResp>>

PullFinishWriteThrough(n, result) ==
    \E r \in pulling :
    /\ r.n = n
    /\ result \in FetchResults(r.source)
    /\ pulling' = pulling \ {r}
    /\ UNCHANGED <<api_keys, cacheTtl, cacheSources, ownerAuth, pipeline, oauthState, admitted, vaultState, connectorRegistry, now, nticks, filters, stagingState,
                   ivs, nsync, syncing, lastWrite, started, timers, syncErrors,
                   nreq, lastCall, fetchLog>>
    /\ IF result = Throw THEN
           /\ lastResp' = Resp(n, "pull", 500, Null, Null, <<>>)
           /\ UNCHANGED <<audit_log, lastFetched, cached_data>>
       ELSE
           /\ lastFetched' = [n |-> n, rows |-> result.rows]
           /\ cached_data' = cached_data \o
                  [i \in 1..Len(result.rows) |->
                      StoredRow(result.rows[i].source, result.rows[i].source_item_id,
                                result.rows[i].timestamp,
                                PlainField(JSON_stringify(result.rows[i].data)))]
           /\ PullRespond(n, r.source, r.purpose, r.key, result.rows)

\* The handler from the settling of connector.fetch to its response. What
\* the 'tokens' listener writes while the fetch of gmail is awaited is the
\* step FetchTokensEvent, which runs between Pull and this.
PullFinish(n, result) ==
    \E r \in pulling :
    /\ r.n = n
    /\ result \in FetchResults(r.source)
    /\ pulling' = pulling \ {r}
    /\ UNCHANGED <<api_keys, cacheTtl, cacheSources, ownerAuth, pipeline, oauthState, admitted, vaultState, connectorRegistry, now, nticks, filters, stagingState, cacheState,
                   nreq, lastCall, fetchLog>>
    /\ IF result = Throw THEN
           /\ lastResp' = Resp(n, "pull", 500, Null, Null, <<>>)
           /\ UNCHANGED <<audit_log, lastFetched>>
       ELSE
           /\ lastFetched' = [n |-> n, rows |-> result.rows]
           /\ PullRespond(n, r.source, r.purpose, r.key, result.rows)

\* ------------------------------------------------------------- syncSource
\* The TTL text parsed by /^(\d+)([dhm])$/: <<amount, unit>>, or <<>> when it
\* does not match.
Digits == {"0", "1", "2", "3", "4", "5", "6", "7", "8", "9"}
DigitValue(c) == CHOOSE v \in 0..9 : <<"0", "1", "2", "3", "4", "5", "6", "7", "8", "9">>[v + 1] = c

RECURSIVE parseInt(_)
parseInt(str) ==
    IF str = <<>> THEN 0
    ELSE 10 * parseInt(SubSeq(str, 1, Len(str) - 1)) + DigitValue(str[Len(str)])

TtlMatch(ttl) ==
    IF /\ Len(ttl) >= 2
       /\ \A i \in 1..(Len(ttl) - 1) : ttl[i] \in Digits
       /\ ttl[Len(ttl)] \in {"d", "h", "m"}
    THEN <<parseInt(SubSeq(ttl, 1, Len(ttl) - 1)), ttl[Len(ttl)]>>
    ELSE <<>>

computeExpiresAtDaysOnly(ttl) ==
    LET match == TtlMatch(ttl)
    IN  IF match = <<>> THEN toISOString(now + DefaultTtlDays * MinutesPerDay)
        ELSE toISOString(now + match[1] * MinutesPerDay)

\* computeExpiresAt, with the clock in minutes.
computeExpiresAt(ttl) ==
    LET match == TtlMatch(ttl)
    IN  IF match = <<>> THEN toISOString(now + DefaultTtlDays * MinutesPerDay)
        ELSE toISOString(now +
                (CASE match[2] = "d" -> match[1] * MinutesPerDay
                   [] match[2] = "h" -> match[1] * MinutesPerHour
                   [] match[2] = "m" -> match[1]))

\* expiresAt = ttl ? computeExpiresAt(ttl) : null
ExpiresAt(source) ==
    IF config[source].cache.ttl = <<>> THEN <<>>
    ELSE computeExpiresAt(config[source].cache.ttl)

\* The row of cached_data with a key, 0 when the key is not stored.
CachedIndex(table, source, item) ==
    IF \E i \in 1..Len(table) : table[i].source = source /\ table[i].source_item_id = item
    THEN CHOOSE i \in 1..Len(table) : table[i].source = source /\ table[i].source_item_id = item
    ELSE 0

UpsertInsertOnly(table, new) == Append(table, new)

\* INSERT ... ON CONFLICT(source, source_item_id) DO UPDATE SET type, timestamp,
\* data, cached_at, expires_at.
Upsert(table, new) ==
    LET i == CachedIndex(table, new.source, new.source_item_id)
    IN  IF i = 0 THEN Append(table, new) ELSE [table EXCEPT ![i] = new]

\* The stored form of the k-th row of a fetched batch.
CachedRow(row, k, expiresAt) ==
    [source |-> row.source, source_item_id |-> row.source_item_id, type |-> row.type,
     timestamp |-> row.timestamp,
     data |-> IF encryptionKey # <<>>
              THEN encryptField(JSON_stringify(row.data), encryptionKey[1], ivs + k)
              ELSE PlainField(JSON_stringify(row.data)),
     cached_at |-> datetime(now), expires_at |-> expiresAt]

\* insertMany: the transaction upserting the first k rows of the batch.
RECURSIVE insertMany(_, _, _, _)
insertMany(table, rows, k, expiresAt) ==
    IF k = 0 THEN table
    ELSE Upsert(insertMany(table, rows, k - 1, expiresAt), CachedRow(rows[k], k, expiresAt))

\* History: what the batch wrote last under each key.
Written(rows, expiresAt) ==
    LET keys == {<<rows[i].source, rows[i].source_item_id>> : i \in 1..Len(rows)}
        last(key) == CHOOSE i \in 1..Len(rows) :
                        /\ <<rows[i].source, rows[i].source_item_id>> = key
                        /\ \A j \in (i + 1)..Len(rows) :
                              <<rows[j].source, rows[j].source_item_id>> # key
    IN  [key \in keys \cup DOMAIN lastWrite |->
            IF key \in keys
            THEN [type |-> rows[last(key)].type, timestamp |-> rows[last(key)].timestamp,
                  data |-> rows[last(key)].data, expires_at |-> expiresAt]
            ELSE lastWrite[key]]

\* Object.entries(config.sources), in order.
SourceOrder == <<"gmail", "github">>

\* DELETE FROM cached_data WHERE source = ?, for every source whose cache is
\* not enabled.
PurgeKeepDisabled(table) == table
Purge(table) ==
    SelectSeq(table, LAMBDA r : ~(r.source \in DOMAIN config /\ ~CacheEnabled(r.source)))

\* startSyncJobs: purge the sources whose cache is not enabled; for the others
\* schedule a timer and run the initial syncSource up to its await of
\* connector.fetch. Nothing makes the call the only one: a further call runs
\* the initial syncs again and schedules a further timer per source.
StartSyncJobs ==
    /\ started => CacheBudget
    /\ started' = TRUE
    /\ LET scheduled == SelectSeq(SourceOrder, LAMBDA s : CacheEnabled(s))
           fetching == SelectSeq(scheduled, LAMBDA s : s \in connectorRegistry)
       IN  /\ timers' = timers (+) SetToBag({scheduled[i] : i \in 1..Len(scheduled)})
           /\ nsync' = nsync + Len(scheduled)
           /\ syncing' = [s \in DOMAIN config |->
                             IF \E i \in 1..Len(fetching) : fetching[i] = s
                             THEN syncing[s] + 1 ELSE syncing[s]]
           /\ fetchLog' = fetchLog \o [i \in 1..Len(fetching) |-> FetchCall(fetching[i], "sync", 0)]
    /\ cached_data' = Purge(cached_data)
    /\ lastWrite' = [key \in {k \in DOMAIN lastWrite :
                                 ~(k[1] \in DOMAIN config /\ ~CacheEnabled(k[1]))} |-> lastWrite[key]]
    /\ UNCHANGED <<api_keys, cacheTtl, cacheSources, ownerAuth, pipeline, oauthState, admitted, vaultState, connectorRegistry, now, nticks, filters, stagingState, audit_log,
                   nreq, lastCall, lastResp, pulling, lastFetched, ivs, syncErrors>>

\* The function startSyncJobs returns: clearInterval on every timer the call
\* scheduled. Every call schedules one timer for each cache-enabled source;
\* a sync that is under way is not stopped, and no table is touched.
ClearTimers ==
    /\ timers # EmptyBag
    /\ timers' = timers (-) SetToBag(BagToSet(timers))
    /\ UNCHANGED <<api_keys, cacheTtl, cacheSources, ownerAuth, pipeline, oauthState, admitted, vaultState, connectorRegistry, now, nticks, filters, stagingState, audit_log,
                   nreq, lastCall, lastResp, pullState, cached_data, ivs, nsync, syncing,
                   lastWrite, started, syncErrors>>

\* syncSource(deps, source) up to its await of connector.fetch, for any
\* source it is called with: it looks at the registry only, not at the
\* source's cache setting or at a timer.
SyncSource(source) ==
    /\ CacheBudget
    /\ nsync' = nsync + 1
    /\ UNCHANGED <<api_keys, cacheTtl, cacheSources, ownerAuth, pipeline, oauthState, admitted, vaultState, connectorRegistry, now, nticks, filters, stagingState, audit_log,
                   nreq, lastCall, lastResp, pulling, lastFetched, cached_data, ivs,
                   lastWrite, started, timers, syncErrors>>
    /\ IF source \notin connectorRegistry
       THEN UNCHANGED <<syncing, fetchLog>>
       ELSE /\ syncing' = [syncing EXCEPT ![source] = @ + 1]
            /\ fetchLog' = Append(fetchLog, FetchCall(source, "sync", 0))

\* The callback of a source's setInterval timer: a call of syncSource. Only
\* the cache-enabled sources of a startSyncJobs call have a timer.
SyncTick(source) ==
    /\ BagIn(source, timers)
    /\ SyncSource(source)

\* JSON.stringify(row.data) throws inside the transaction function: a member
\* of the data is a bigint.
StringifyThrows(row) == \E k \in DOMAIN row.data : row.data[k] = BigIntValue

\* The first row of a batch at which the loop of the transaction function
\* throws, 0 when it throws at none.
FirstUnwritable(rows) ==
    IF \E i \in 1..Len(rows) : StringifyThrows(rows[i])
    THEN CHOOSE i \in 1..Len(rows) :
            /\ StringifyThrows(rows[i])
            /\ \A j \in 1..(i - 1) : ~StringifyThrows(rows[j])
    ELSE 0

transactionNoRollback(table, rows, expiresAt) ==
    insertMany(table, rows,
               IF FirstUnwritable(rows) = 0 THEN Len(rows) ELSE FirstUnwritable(rows) - 1,
               expiresAt)

\* db.transaction(() => { for (const row of rows) { JSON.stringify(row.data);
\* upsert.run(...) } })(): the upserts are committed together, and rolled back
\* when the function throws.
transaction(table, rows, expiresAt) ==
    IF FirstUnwritable(rows) # 0 THEN table
    ELSE insertMany(table, rows, Len(rows), expiresAt)

\* syncSource rejects: connector.fetch rejected, or insertMany threw.
SyncRejects(result) == result = Throw \/ FirstUnwritable(result.rows) # 0

SyncStoreFiltered(source, result) ==
    LET kept == IF result = Throw THEN <<>>
                ELSE applyFilters(result.rows, EnabledFilters(source))
    IN  IF result = Throw THEN cached_data
        ELSE insertMany(cached_data, kept, Len(kept), ExpiresAt(source))

SyncStoreWipeOnError(source, result) ==
    IF result = Throw THEN SelectSeq(cached_data, LAMBDA r : r.source # source)
    ELSE insertMany(cached_data, result.rows, Len(result.rows), ExpiresAt(source))

\* cached_data once connector.fetch has settled: a rejection leaves syncSource
\* before any write, a returned batch is upserted in one transaction.
SyncStore(source, result) ==
    IF result = Throw THEN cached_data
    ELSE transaction(cached_data, result.rows, ExpiresAt(source))

\* syncSource from the settling of connector.fetch: a rejected fetch, or a
\* write that throws, is caught by the scheduler and logged; a returned batch
\* is upserted in one transaction.
SyncFinish(source, result) ==
    /\ syncing[source] > 0
    /\ result \in FetchResults(source) \cup UnwritableBatches(source)
    /\ syncing' = [syncing EXCEPT ![source] = @ - 1]
    /\ UNCHANGED <<api_keys, cacheTtl, cacheSources, ownerAuth, pipeline, oauthState, admitted, vaultState, connectorRegistry, now, nticks, filters, stagingState, audit_log,
                   nreq, lastCall, lastResp, pullState, nsync, started, timers>>
    /\ cached_data' = SyncStore(source, result)
    /\ IF SyncRejects(result)
       THEN /\ syncErrors' = Append(syncErrors, [source |-> source, at |-> now])
            /\ UNCHANGED <<ivs, lastWrite>>
       ELSE /\ ivs' = IF encryptionKey # <<>> THEN ivs + Len(result.rows) ELSE ivs
            /\ lastWrite' = Written(result.rows, ExpiresAt(source))
            /\ UNCHANGED syncErrors

\* ------------------------------------------------------------------ clock
Tick(step) ==
    /\ CacheBudget
    /\ nticks' = nticks + 1
    /\ now' = now + step
    /\ UNCHANGED <<api_keys, cacheTtl, cacheSources, ownerAuth, pipeline, oauthState, admitted, vaultState, connectorRegistry, filters, stagingState, audit_log, nreq,
                   lastCall, lastResp, cacheState, pullState>>

\* ------------------------------------------------ owner: keys, connections
KeyIds == {"agent", "other", "none", "lab-bot"}

\* DELETE /api/keys/:id: UPDATE api_keys SET enabled = 0 WHERE id = ?
RevokeKeyRow(keys, id) ==
    [k \in DOMAIN keys |-> IF k = id THEN [keys[k] EXCEPT !.enabled = 0] ELSE keys[k]]

RevokeKey(id) ==
    /\ Budget
    /\ nreq' = nreq + 1
    /\ lastCall' = Call("revoke", Null, Null, Null, <<id>>)
    /\ api_keys' = RevokeKeyRow(api_keys, id)
    /\ lastResp' = Resp(nreq + 1, "revoke", 200, Null, Null, <<>>)
    /\ UNCHANGED <<cacheTtl, cacheSources, ownerAuth, pipeline, oauthState, admitted, vaultState, connectorRegistry, now, nticks, filters, stagingState,
                   cacheState, pullState, audit_log>>

\* Names the owner gives a new key, and the key randomUUID makes for it.
KeyNames == {<<"O", "t", "h", "e", "r">>, <<"L", "a", "b", " ", " ", "B", "o", "t">>}
NewRawKeys == {"pk_new"}

\* String.replace(/\s+/g, '-'): every run of spaces becomes one hyphen.
RECURSIVE ReplaceSpaces(_)
ReplaceSpaces(str) ==
    IF str = <<>> THEN <<>>
    ELSE IF Head(str) # " " THEN <<Head(str)>> \o ReplaceSpaces(Tail(str))
    ELSE IF Len(str) > 1 /\ str[2] = " " THEN ReplaceSpaces(Tail(str))
    ELSE <<"-">> \o ReplaceSpaces(Tail(str))

\* The spelling of a key id.
KeyIdChars(id) ==
    CASE id = "agent" -> <<"a", "g", "e", "n", "t">>
      [] id = "other" -> <<"o", "t", "h", "e", "r">>
      [] id = "none" -> <<"n", "o", "n", "e">>
      [] id = "lab-bot" -> <<"l", "a", "b", "-", "b", "o", "t">>

\* id = name.toLowerCase().replace(/\s+/g, '-')
KeyId(name) == CHOOSE id \in KeyIds : KeyIdChars(id) = ReplaceSpaces(toLowerCase(name))

\* POST /api/keys: INSERT INTO api_keys (id, key_hash, name, allowed_manifests);
\* enabled defaults to 1, and id is the table's key, so that a stored id makes
\* the INSERT throw.
CreateKey(name, rawKey) ==
    /\ Budget
    /\ \A id \in DOMAIN api_keys : ~compareSync(rawKey, api_keys[id].key_hash)
    /\ nreq' = nreq + 1
    /\ lastCall' = Call("create_key", Null, Null, Null, <<name>>)
    /\ IF KeyId(name) \in DOMAIN api_keys
       THEN /\ lastResp' = Resp(nreq + 1, "create_key", 500, Null, Null, <<>>)
            /\ UNCHANGED api_keys
       ELSE /\ api_keys' = [id \in DOMAIN api_keys \cup {KeyId(name)} |->
                               IF id = KeyId(name)
                               THEN [key_hash |-> hashSync(rawKey), enabled |-> 1]
                               ELSE api_keys[id]]
            /\ lastResp' = Resp(nreq + 1, "create_key", 200, Null, Null,
                                <<KeyId(name), rawKey>>)
    /\ UNCHANGED <<cacheTtl, cacheSources, ownerAuth, pipeline, oauthState, admitted, vaultState, connectorRegistry, now, nticks, filters, stagingState,
                   cacheState, pullState, audit_log>>

\* ------------------------------------------------------------- demo data
\* DEMO_EMAILS: gmail mails with a title and a body, under ids that begin
\* with demo.
DemoEmails ==
    << Row("gmail", "demo_1", toISOString(MinutesPerDay), DataQ4),
       Row("gmail", "demo_2", toISOString(0), DataHi) >>

\* The spelling of a source_item_id.
ItemChars(id) ==
    CASE id = "demo_1" -> <<"d", "e", "m", "o", "_", "1">>
      [] id = "demo_2" -> <<"d", "e", "m", "o", "_", "2">>
      [] OTHER -> <<id>>

\* source_item_id LIKE 'demo_%': LIKE ignores the case of letters, _ stands
\* for any one character and % for any text.
LikeDemo(id) ==
    LET chars == toLowerCase(ItemChars(id))
    IN  Len(chars) >= 5 /\ SubSeq(chars, 1, 4) = <<"d", "e", "m", "o">>

\* upsertEmail: the data goes in as JSON text, expires_at is not written, and
\* a stored row keeps its expires_at.
DemoUpsert(table, email) ==
    LET i == CachedIndex(table, email.source, email.source_item_id)
        new == [source |-> email.source, source_item_id |-> email.source_item_id,
                type |-> email.type, timestamp |-> email.timestamp,
                data |-> PlainField(JSON_stringify(email.data)),
                cached_at |-> datetime(now),
                expires_at |-> IF i = 0 THEN <<>> ELSE table[i].expires_at]
    IN  IF i = 0 THEN Append(table, new) ELSE [table EXCEPT ![i] = new]

\* insertAll: the transaction upserting the first k demo mails.
RECURSIVE insertAll(_, _)
insertAll(table, k) ==
    IF k = 0 THEN table ELSE DemoUpsert(insertAll(table, k - 1), DemoEmails[k])

\* loadDemoData(db)
LoadDemoData ==
    /\ Budget /\ CacheBudget
    /\ nreq' = nreq + 1
    /\ lastCall' = Call("load_demo", Null, Null, Null, <<>>)
    /\ cached_data' = insertAll(cached_data, Len(DemoEmails))
    /\ lastWrite' =
          LET keys == {<<DemoEmails[k].source, DemoEmails[k].source_item_id>> :
                          k \in 1..Len(DemoEmails)}
              mail(key) == DemoEmails[CHOOSE k \in 1..Len(DemoEmails) :
                              <<DemoEmails[k].source, DemoEmails[k].source_item_id>> = key]
          IN  [key \in keys \cup DOMAIN lastWrite |->
                  IF key \in keys
                  THEN [type |-> mail(key).type, timestamp |-> mail(key).timestamp,
                        data |-> mail(key).data,
                        expires_at |-> IF key \in DOMAIN lastWrite
                                       THEN lastWrite[key].expires_at ELSE <<>>]
                  ELSE lastWrite[key]]
    /\ lastResp' = Resp(nreq + 1, "load_demo", 0, Null, "returned", <<Len(DemoEmails)>>)
    /\ UNCHANGED <<api_keys, cacheTtl, cacheSources, ownerAuth, pipeline, oauthState, admitted, vaultState, connectorRegistry, now, nticks, filters, stagingState,
                   audit_log, pullState, ivs, nsync, syncing, started, timers, syncErrors>>

\* unloadDemoData(db): DELETE FROM cached_data WHERE source_item_id LIKE 'demo_%'
UnloadDemoData ==
    /\ Budget /\ CacheBudget
    /\ nreq' = nreq + 1
    /\ lastCall' = Call("unload_demo", Null, Null, Null, <<>>)
    /\ cached_data' = SelectSeq(cached_data, LAMBDA r : ~LikeDemo(r.source_item_id))
    /\ lastWrite' = [key \in {k \in DOMAIN lastWrite : ~LikeDemo(k[2])} |-> lastWrite[key]]
    /\ lastResp' = Resp(nreq + 1, "unload_demo", 0, Null, "returned",
                        <<Len(SelectSeq(cached_data, LAMBDA r : LikeDemo(r.source_item_id)))>>)
    /\ UNCHANGED <<api_keys, cacheTtl, cacheSources, ownerAuth, pipeline, oauthState, admitted, vaultState, connectorRegistry, now, nticks, filters, stagingState,
                   audit_log, pullState, ivs, nsync, syncing, started, timers, syncErrors>>

\* auditLog.insert(event, source, details)
auditInsert(event, source) == AuditEntry(event, source, Null, Null, Null, Null, 0)

DisconnectResetLog(source) ==
    /\ Budget
    /\ nreq' = nreq + 1
    /\ lastCall' = Call("disconnect", Null, Null, source, <<>>)
    /\ oauth_tokens' = deleteToken(oauth_tokens, source)
    /\ UNCHANGED refreshing
    /\ connectorRegistry' = connectorRegistry \ {source}
    /\ audit_log' = <<auditInsert("oauth_disconnected", source)>>
    /\ lastResp' = Resp(nreq + 1, "disconnect", 200, Null, Null, <<>>)
    /\ UNCHANGED <<api_keys, cacheTtl, cacheSources, ownerAuth, pipeline, oauthState, admitted, now, nticks, filters, stagingState, cacheState, pullState>>

\* POST /oauth/<source>/disconnect
Disconnect(source) ==
    /\ Budget
    /\ nreq' = nreq + 1
    /\ lastCall' = Call("disconnect", Null, Null, source, <<>>)
    /\ oauth_tokens' = deleteToken(oauth_tokens, source)
    /\ UNCHANGED refreshing
    /\ connectorRegistry' = connectorRegistry \ {source}
    /\ audit_log' = Append(audit_log, auditInsert("oauth_disconnected", source))
    /\ lastResp' = Resp(nreq + 1, "disconnect", 200, Null, Null, <<>>)
    /\ UNCHANGED <<api_keys, cacheTtl, cacheSources, ownerAuth, pipeline, oauthState, admitted, now, nticks, filters, stagingState, cacheState, pullState>>

\* ------------------------------------------------------------ OAuth flow
\* Requests, clock steps and timer runs made in one behaviour.
MaxOAuthOps == 4

OAuthBudget == nreq + nticks < MaxOAuthOps

\* STATE_MAX_AGE_MS: 10 minutes.
StateMaxAge == 10

\* Values of randomBytes(32).toString('hex').
StateValues == {"st1", "st2"}

\* Query parameters of a callback, <<code, state, error>>; "" is an absent
\* parameter.
CallbackQueries ==
    {<<"code", state, "">> : state \in StateValues \cup {"forged", ""}}
        \cup {<<"", "st1", "">>, <<"code", "st1", "access_denied">>}

\* What the token exchange gives: tokens, an error answer, or an exception.
ExchangeOutcomes == {"tokens", "error", "throw"}

\* The awaits of a callback after its checks. Gmail: getToken, userinfo.get.
\* GitHub: the token request, its body, the user request, its body.
AwaitsOf(source) == IF source = "gmail" THEN 2 ELSE 4

\* How the await at a stage may settle.
Settles(source, stage) ==
    IF source = "gmail"
    THEN (IF stage = 1 THEN ExchangeOutcomes ELSE {"info", "throw"})
    ELSE CASE stage = 1 -> {"response", "throw"}
           [] stage = 2 -> ExchangeOutcomes
           [] stage = 3 -> {"response", "throw"}
           [] stage = 4 -> {"info", "noinfo", "throw"}

\* The settled await ends the callback in its catch block or on the error of
\* the token answer; a failing userinfo.get of Gmail is caught on the spot.
Fails(source, stage, outcome) ==
    \/ outcome = "error"
    \/ outcome = "throw" /\ ~(source = "gmail" /\ stage = 2)

\* account_info as JSON.stringify keeps it: undefined members are left out.
AccountInfo(source, outcome) ==
    IF outcome = "info"
    THEN (IF source = "gmail" THEN [email |-> "a"] ELSE [login |-> "a"])
    ELSE EmptyObject

\* The token data a callback stores: gmail's expiry is the expiry_date of
\* the tokens, github's is counted from the time of the storing.
GrantedToken(source, at, outcome) ==
    IF source = "gmail"
    THEN TokenData("at5", <<"rt5">>, <<"Bearer">>, <<toISOString(at + MinutesPerHour)>>,
                   <<"gmail.readonly gmail.compose">>, <<AccountInfo(source, outcome)>>)
    ELSE TokenData("at6", <<"rt6">>, <<"Bearer">>, <<toISOString(now + MinutesPerHour)>>,
                   <<"">>, <<AccountInfo(source, outcome)>>)

oauthFrame ==
    <<api_keys, cacheTtl, cacheSources, ownerAuth, pipeline, admitted, refreshing, filters, stagingState, pullState,
      cached_data, nsync, syncing, lastWrite, started, timers, syncErrors>>

\* getGmailCredentials, getGitHubCredentials
getCredentials(source) == config[source].owner_auth

\* The start route redirects with oauth_error=<source>_missing_credentials:
\* gmail needs its id and its secret, github its id.
MissingCredentials(source) ==
    IF source = "gmail"
    THEN getCredentials(source).clientId = "" \/ getCredentials(source).clientSecret = ""
    ELSE getCredentials(source).clientId = ""

\* GET /oauth/<source>/start
OAuthStart(source, state) ==
    /\ OAuthBudget
    /\ source \in DOMAIN config
    /\ nreq' = nreq + 1
    /\ lastCall' = Call("oauth_start", Null, Null, source, <<>>)
    /\ IF MissingCredentials(source)
       THEN /\ lastResp' = Resp(nreq + 1, "oauth_start", 302, Null, "missing_credentials", <<>>)
            /\ UNCHANGED <<pendingStates, issuedStates>>
       ELSE /\ state \in StateValues \ DOMAIN issuedStates
            /\ pendingStates' = [s \in DOMAIN pendingStates \cup {state} |->
                                    IF s = state THEN [source |-> source, createdAt |-> now]
                                    ELSE pendingStates[s]]
            /\ issuedStates' = [s \in DOMAIN issuedStates \cup {state} |->
                                   IF s = state THEN source ELSE issuedStates[s]]
            /\ lastResp' = Resp(nreq + 1, "oauth_start", 302, Null, "authorize", <<state>>)
    /\ UNCHANGED <<exchanging, acceptedCallbacks, wired, oauth_tokens, ivs, connectorRegistry,
                   audit_log, now, nticks, oauthFrame>>

CallbackRefusalAnySource(source, code, state, error) ==
    IF error # "" THEN error
    ELSE IF code = "" \/ state = "" THEN "missing_code_or_state"
    ELSE IF state \notin DOMAIN pendingStates THEN "invalid_state"
    ELSE ""

\* The redirect by which a callback is refused before the exchange, "" if it
\* is not.
CallbackRefusal(source, code, state, error) ==
    IF error # "" THEN error
    ELSE IF code = "" \/ state = "" THEN "missing_code_or_state"
    ELSE IF state \notin DOMAIN pendingStates \/ pendingStates[state].source # source
    THEN "invalid_state"
    ELSE ""

\* GET /oauth/<source>/callback, to its first await.
OAuthCallback(source, code, state, error) ==
    /\ OAuthBudget
    /\ source \in DOMAIN config
    /\ nreq' = nreq + 1
    /\ lastCall' = Call("oauth_callback", Null, Null, source, <<code, state, error>>)
    /\ IF CallbackRefusal(source, code, state, error) # ""
       THEN /\ lastResp' = Resp(nreq + 1, "oauth_callback", 302, Null,
                                CallbackRefusal(source, code, state, error), <<>>)
            /\ UNCHANGED <<pendingStates, exchanging, acceptedCallbacks>>
       ELSE /\ pendingStates' = [s \in DOMAIN pendingStates \ {state} |-> pendingStates[s]]
            /\ exchanging' = exchanging \cup {[n |-> nreq + 1, source |-> source, state |-> state,
                                               stage |-> 1, at |-> 0]}
            /\ acceptedCallbacks' = Append(acceptedCallbacks, [state |-> state, source |-> source])
            /\ UNCHANGED lastResp
    /\ UNCHANGED <<issuedStates, wired, oauth_tokens, ivs, connectorRegistry, audit_log, now,
                   nticks, oauthFrame>>

\* An await of the callback before its last one has settled: the callback
\* goes on to the next await, or ends with its error redirect.
OAuthCallbackResume(e, outcome) ==
    /\ e \in exchanging
    /\ e.stage < AwaitsOf(e.source)
    /\ outcome \in Settles(e.source, e.stage)
    /\ IF Fails(e.source, e.stage, outcome)
       THEN /\ exchanging' = exchanging \ {e}
            /\ lastResp' = Resp(e.n, "oauth_callback", 302, Null, "oauth_error", <<>>)
       ELSE /\ exchanging' = (exchanging \ {e}) \cup {[e EXCEPT !.stage = @ + 1,
                                                                !.at = IF e.source = "gmail"
                                                                       THEN now ELSE @]}
            /\ UNCHANGED lastResp
    /\ UNCHANGED <<pendingStates, issuedStates, acceptedCallbacks, wired, oauth_tokens, ivs,
                   connectorRegistry, audit_log, nreq, lastCall, now, nticks, oauthFrame>>

\* The callback from the settling of its last await to its redirect: the
\* token is stored, the connector is made anew and registered (gmail's with
\* the 'tokens' listener), the connection is logged.
OAuthCallbackFinish(e, outcome) ==
    /\ e \in exchanging
    /\ e.stage = AwaitsOf(e.source)
    /\ outcome \in Settles(e.source, e.stage)
    /\ exchanging' = exchanging \ {e}
    /\ IF ~Fails(e.source, e.stage, outcome)
       THEN /\ oauth_tokens' = storeToken(oauth_tokens, e.source,
                                         GrantedToken(e.source, e.at, outcome),
                                         masterSecret, ivs + 1)
            /\ ivs' = ivs + TokenIvs(GrantedToken(e.source, e.at, outcome))
            /\ connectorRegistry' = connectorRegistry \cup {e.source}
            /\ wired' = (wired \/ e.source = "gmail")
            /\ audit_log' = Append(audit_log, auditInsert("oauth_connected", e.source))
            /\ lastResp' = Resp(e.n, "oauth_callback", 302, Null, "oauth_success", <<>>)
       ELSE /\ lastResp' = Resp(e.n, "oauth_callback", 302, Null, "oauth_error", <<>>)
            /\ UNCHANGED <<oauth_tokens, ivs, connectorRegistry, wired, audit_log>>
    /\ UNCHANGED <<pendingStates, issuedStates, acceptedCallbacks, nreq, lastCall, now, nticks,
                   oauthFrame>>

\* The tokens a refresh inside gmail's OAuth client reports: access_token
\* and expiry_date, each present or not.
NewTokens == {<<<<>>, <<>>>>, <<<<"at7">>, <<>>>>, <<<<"at7">>, <<MinutesPerDay>>>>}

\* The listener on 'tokens' of gmail's connector: a reported access token is
\* written to the vault with its expiry.
TokensEvent(newTokens) ==
    /\ OAuthBudget
    /\ wired
    /\ nreq' = nreq + 1
    /\ lastCall' = Call("tokens", Null, Null, "gmail", newTokens)
    /\ IF newTokens[1] # <<>>
       THEN /\ oauth_tokens' = updateAccessToken(oauth_tokens, "gmail", newTokens[1][1],
                                    IF newTokens[2] = <<>> THEN <<>>
                                    ELSE <<toISOString(newTokens[2][1])>>,
                                    masterSecret, ivs + 1)
            /\ ivs' = ivs + 1
       ELSE UNCHANGED <<oauth_tokens, ivs>>
    /\ lastResp' = Resp(nreq + 1, "tokens", 0, Null, "returned", <<>>)
    /\ UNCHANGED <<oauthState, connectorRegistry, audit_log, now, nticks, oauthFrame>>

\* The cleanup timer: states older than STATE_MAX_AGE_MS are deleted.
PurgeStates ==
    /\ OAuthBudget
    /\ \E s \in DOMAIN pendingStates : now - pendingStates[s].createdAt > StateMaxAge
    /\ pendingStates' = [s \in {t \in DOMAIN pendingStates :
                                    now - pendingStates[t].createdAt <= StateMaxAge} |->
                            pendingStates[s]]
    /\ UNCHANGED <<exchanging, issuedStates, acceptedCallbacks, wired, oauth_tokens, ivs,
                   connectorRegistry, audit_log, nreq, lastCall, lastResp, now, nticks,
                   oauthFrame>>

\* Time passes.
Elapse(step) ==
    /\ OAuthBudget
    /\ nticks' = nticks + 1
    /\ now' = now + step
    /\ UNCHANGED <<oauthState, admitted, oauth_tokens, ivs, connectorRegistry, audit_log, nreq, lastCall,
                   lastResp, oauthFrame>>

\* --------------------------------------------------- TokenManager calls
\* What a TokenManager call leaves alone.
vaultFrame ==
    <<api_keys, cacheTtl, cacheSources, ownerAuth, pipeline, oauthState, admitted, connectorRegistry, now, nticks, filters, stagingState, audit_log,
      pullState, cached_data, nsync, syncing, lastWrite, started, timers, syncErrors>>

VaultBudget == nreq < MaxVaultOps

\* storeToken(source, data) of a TokenManager built with the secret key.
StoreToken(source, data, key) ==
    /\ VaultBudget
    /\ nreq' = nreq + 1
    /\ lastCall' = Call("storeToken", Null, Null, source, <<data>>)
    /\ oauth_tokens' = storeToken(oauth_tokens, source, data, key, ivs + 1)
    /\ ivs' = ivs + TokenIvs(data)
    /\ lastResp' = Resp(nreq + 1, "storeToken", 0, Null, "returned", <<>>)
    /\ UNCHANGED <<refreshing, vaultFrame>>

\* Arguments of updateAccessToken.
AccessTokens == {"at3", "at4"}
Expiries == {<<>>, <<toISOString(MinutesPerDay)>>}

\* tokenManager.updateAccessToken(source, accessToken, expiresAt)
UpdateAccessToken(source, accessToken, expiresAt) ==
    /\ VaultBudget
    /\ nreq' = nreq + 1
    /\ lastCall' = Call("updateAccessToken", Null, Null, source, <<accessToken, expiresAt>>)
    /\ oauth_tokens' = updateAccessToken(oauth_tokens, source, accessToken, expiresAt,
                                         masterSecret, ivs + 1)
    /\ ivs' = ivs + 1
    /\ lastResp' = Resp(nreq + 1, "updateAccessToken", 0, Null, "returned", <<>>)
    /\ UNCHANGED <<refreshing, vaultFrame>>

\* tokenManager.deleteToken(source)
DeleteToken(source) ==
    /\ VaultBudget
    /\ nreq' = nreq + 1
    /\ lastCall' = Call("deleteToken", Null, Null, source, <<>>)
    /\ oauth_tokens' = deleteToken(oauth_tokens, source)
    /\ lastResp' = Resp(nreq + 1, "deleteToken", 0, Null, "returned", <<>>)
    /\ UNCHANGED <<refreshing, ivs, vaultFrame>>

\* getToken(source) of a TokenManager built with the secret key.
GetToken(source, key) ==
    LET got == getToken(oauth_tokens, source, key)
    IN  /\ VaultBudget
        /\ nreq' = nreq + 1
        /\ lastCall' = Call("getToken", Null, Null, source, <<key>>)
        /\ lastResp' = Resp(nreq + 1, "getToken", 0, Null, got.kind, got.token)
        /\ UNCHANGED <<oauth_tokens, refreshing, ivs, vaultFrame>>

\* refreshGmailToken and refreshGitHubToken up to the await of fetch: null
\* without a stored refresh token, else the request to the provider is sent.
RefreshToken(source) ==
    LET got == getToken(oauth_tokens, source, masterSecret)
    IN  /\ VaultBudget
        /\ got.kind # "throw"
        /\ nreq' = nreq + 1
        /\ lastCall' = Call("refreshToken", Null, Null, source, <<>>)
        /\ IF got.kind = "null" \/ got.token[1].refresh_token = <<>>
           THEN /\ lastResp' = Resp(nreq + 1, "refreshToken", 0, Null, "returned", <<>>)
                /\ UNCHANGED refreshing
           ELSE /\ refreshing' = refreshing \cup
                                     {[n |-> nreq + 1, source |-> source, token |-> got.token[1],
                                       stage |-> "fetch"]}
                /\ UNCHANGED lastResp
        /\ UNCHANGED <<oauth_tokens, ivs, vaultFrame>>

\* Answers of the provider's token endpoint: a failure status, or a body with
\* access_token, expires_in (in minutes here) and refresh_token, each optional.
RefreshAnswer(ok, access, expiresIn, refresh) ==
    [ok |-> ok, access_token |-> access, expires_in |-> expiresIn, refresh_token |-> refresh]
RefreshAnswers(source) ==
    {RefreshAnswer(TRUE, <<"at5">>, <<MinutesPerHour>>, <<"rt2">>),
     RefreshAnswer(TRUE, <<"at5">>, <<>>, <<>>)}
    \cup (IF source = "github" THEN {RefreshAnswer(TRUE, <<>>, <<>>, <<>>)} ELSE {})

\* expires_in ? new Date(Date.now() + expires_in * 1000).toISOString() : undefined
RefreshExpiry(answer) ==
    IF answer.expires_in = <<>> THEN <<>> ELSE <<toISOString(now + answer.expires_in[1])>>

\* The token data refreshGitHubToken stores.
RefreshedData(token, answer) ==
    TokenData(answer.access_token[1],
              IF answer.refresh_token # <<>> THEN answer.refresh_token ELSE token.refresh_token,
              <<"Bearer">>, RefreshExpiry(answer), token.scopes, token.account_info)

\* The provider's response has come: null when it is not ok, else the
\* refresh awaits the body.
RefreshResponse(p, ok) ==
    /\ p \in refreshing
    /\ p.stage = "fetch"
    /\ IF ok
       THEN /\ refreshing' = (refreshing \ {p}) \cup {[p EXCEPT !.stage = "json"]}
            /\ UNCHANGED lastResp
       ELSE /\ refreshing' = refreshing \ {p}
            /\ lastResp' = Resp(p.n, "refreshToken", 0, Null, "returned", <<>>)
    /\ UNCHANGED <<oauth_tokens, ivs, nreq, lastCall, vaultFrame>>

\* The rest of a refresh once the body of the response was read.
RefreshFinish(p, answer) ==
    /\ p \in refreshing
    /\ p.stage = "json"
    /\ answer \in RefreshAnswers(p.source)
    /\ refreshing' = refreshing \ {p}
    /\ IF answer.access_token = <<>>
       THEN /\ lastResp' = Resp(p.n, "refreshToken", 0, Null, "returned", <<>>)
            /\ UNCHANGED <<oauth_tokens, ivs>>
       ELSE /\ lastResp' = Resp(p.n, "refreshToken", 0, Null, "returned", answer.access_token)
            /\ IF p.source = "gmail"
               THEN /\ oauth_tokens' = updateAccessToken(oauth_tokens, "gmail",
                                            answer.access_token[1], RefreshExpiry(answer),
                                            masterSecret, ivs + 1)
                    /\ ivs' = ivs + 1
               ELSE /\ oauth_tokens' = storeToken(oauth_tokens, "github",
                                            RefreshedData(p.token, answer), masterSecret, ivs + 1)
                    /\ ivs' = ivs + TokenIvs(RefreshedData(p.token, answer))
    /\ UNCHANGED <<nreq, lastCall, vaultFrame>>

NextVault ==
    \/ \E s \in VaultSources, d \in TokenDatas : StoreToken(s, d, masterSecret)
    \/ \E s \in VaultSources, a \in AccessTokens, e \in Expiries : UpdateAccessToken(s, a, e)
    \/ \E s \in VaultSources : DeleteToken(s)
    \/ \E s \in VaultSources, k \in Secrets : GetToken(s, k)
    \/ \E s \in VaultSources : RefreshToken(s)
    \/ \E p \in refreshing, ok \in BOOLEAN : RefreshResponse(p, ok)
    \/ \E p \in refreshing, a \in UNION {RefreshAnswers(s) : s \in VaultSources} :
          RefreshFinish(p, a)

\* ---------------------------------------------------------------- Next
NextStaging ==
    \/ \E tok \in Tokens : AuthMiddleware(tok, "propose")
    \/ \E tok \in Tokens, s \in SourceNames, t \in ActionTypes, d \in ProposeData,
          p \in Purposes : Propose(tok, s, t, d, p)
    \/ \E id \in ActionIds, d \in Decisions : ResolveBegin(id, d)
    \/ \E n \in 1..MaxRequests, o \in ExecOutcomes : ResolveFinish(n, o)
    \/ \E id \in ActionIds, b \in EditData : Edit(id, b)

\* The token of the pulls next to the sync jobs: the agent's key. Pulls under
\* several keys are in the gateway runs.
CacheTokens == {<<"pk_good">>}

\* What connector.fetch answers a live pull in these runs: a rejection, one
\* row, or two rows. A sync's fetch answers with a rejection or a batch that
\* has rows; syncs of an empty batch are in the runs under the TTL settings.
LivePullResults(source) ==
    {res \in FetchResults(source) :
        \/ res = Throw
        \/ /\ res.rows # <<>>
           /\ \A i, j \in 1..Len(res.rows) :
                 res.rows[i].source_item_id = res.rows[j].source_item_id => i = j}

NextCache ==
    \/ StartSyncJobs
    \/ CacheBudget /\ ClearTimers
    \/ \E tok \in CacheTokens : AuthMiddleware(tok, "pull")
    \/ \E tok \in CacheTokens, s \in DOMAIN config : Pull(tok, s, "why")
    \/ \E n \in 1..MaxRequests, res \in UNION {LivePullResults(s) : s \in DOMAIN config} :
          PullFinish(n, res)
    \/ \E s \in DOMAIN config : SyncTick(s)
    \/ \E s \in DOMAIN config, res \in UNION {FetchResults(t) \ {Returned(<<>>)} : t \in DOMAIN config} :
          SyncFinish(s, res)
    \/ \E step \in ClockSteps : Tick(step)
    \/ LoadDemoData
    \/ UnloadDemoData

NextOwner ==
    \/ \E id \in KeyIds : RevokeKey(id)
    \/ \E name \in KeyNames, raw \in NewRawKeys : CreateKey(name, raw)
    \/ \E s \in DOMAIN config : Disconnect(s)

\* ------------------------------------------------------- pipeline runs
\* The staging row a stage operator inserts.
StagedRow(props) == ProposedRow(props.source, props.action_type, <<>>, "")

pipelineFrame ==
    <<api_keys, cacheTtl, cacheSources, ownerAuth, oauthState, admitted, vaultState, connectorRegistry, now, nticks, nreq, lastCall, lastResp,
      resolving, execLog, approveIssued, filters, nsync, syncing, started, timers,
      syncErrors, pulling, lastFetched, audit_log>>

\* The run's local variables are gone once executePipeline has returned or
\* thrown; the history of operator calls stays.
Finished(p, status, result, executed) ==
    [NoPipeline EXCEPT !.status = status, !.manifest = p.manifest, !.cacheOnly = p.cacheOnly,
                       !.runs = p.runs, !.result = result, !.executed = executed]

\* The PipelineResult returned after the last node.
Return(p, data, actionResult, operatorsApplied, itemsFetched) ==
    [data |-> data, actionResult |-> actionResult,
     meta |-> [operatorsApplied |-> operatorsApplied, itemsFetched |-> itemsFetched,
               itemsReturned |-> Len(data)]]

AbortsNever(out) == FALSE

\* An exception of the awaited operator.execute leaves executePipeline.
Aborts(out) == out.kind = "throw"

NextInputKept(type, out, currentData) == currentData

\* currentData after an operator: a stage's result is the ActionResult, any
\* other operator's array result becomes the row stream.
NextInput(type, out, currentData) ==
    IF type # "stage" /\ out.kind = "rows" THEN out.rows ELSE currentData

\* The runs with run r's locals replaced.
Put(r, p) ==
    [i \in 1..(IF r > Len(pipeline) THEN r ELSE Len(pipeline)) |->
        IF i = r THEN p ELSE pipeline[i]]

\* The loop over manifest.graph reaches the node at p.pos, for run r with
\* locals p: getOperator, operatorsApplied.push, and operator.execute up to
\* the await of its promise. The operator reads and writes the store while
\* it is called; answer is what connector.fetch will give a live pull.
CallOperator(r, p, answer, actionId) ==
    LET manifest == Manifests[p.manifest]
        nodeName == manifest.graph[p.pos]
        opDecl == manifest.operators[nodeName]
        props == opDecl.properties
        registered == opDecl.type \in RegisteredOperators
        out == IF registered
               THEN Execute(opDecl.type, p.currentData, props, p.cacheOnly, answer, actionId)
               ELSE Thrown
    IN  /\ pipeline' =
              Put(r, IF ~registered THEN Finished(p, "failed", <<>>, p.executed)
                     ELSE [p EXCEPT !.operatorsApplied =
                                       Append(@, NameKind(nodeName, opDecl.type)),
                                    !.awaiting =
                                       <<[node |-> nodeName, type |-> opDecl.type,
                                          input |-> p.currentData, output |-> out]>>])
        /\ fetchLog' =
              IF opDecl.type = "pull" /\ PullFetches(props, p.cacheOnly)
              THEN Append(fetchLog, [source |-> props.source, boundary |-> BoundaryOf(props.source),
                                     by |-> "pipeline", n |-> 0])
              ELSE fetchLog
        /\ IF opDecl.type = "store"
           THEN /\ cached_data' = insertMany(cached_data, p.currentData, Len(p.currentData), <<>>)
                /\ ivs' = IF encryptionKey # <<>> THEN ivs + Len(p.currentData) ELSE ivs
                /\ lastWrite' = Written(p.currentData, <<>>)
           ELSE UNCHANGED <<cached_data, ivs, lastWrite>>
        /\ IF opDecl.type = "stage" /\ out.kind = "action"
           THEN InsertStaging(actionId, StagedRow(props))
           ELSE UNCHANGED staging

ManifestIds == DOMAIN Manifests

\* executePipeline(manifest, context): the validation loop, then the first
\* operator up to its await. A call may be made while others run.
ExecutePipeline(id, cacheOnly, answer, actionId) ==
    /\ Len(pipeline) < MaxRuns
    /\ LET begun == [NoPipeline EXCEPT !.status = "running", !.manifest = id,
                                       !.cacheOnly = cacheOnly, !.pos = 1,
                                       !.runs = Len(pipeline) + 1]
       IN  IF FirstInvalid(Manifests[id]) # 0
           THEN /\ pipeline' = Put(Len(pipeline) + 1, Finished(begun, "failed", <<>>, <<>>))
                /\ UNCHANGED <<fetchLog, cached_data, ivs, lastWrite, staging>>
           ELSE CallOperator(Len(pipeline) + 1, begun, answer, actionId)
    /\ UNCHANGED pipelineFrame

\* The awaited operator.execute of run r has settled: an exception leaves
\* executePipeline, a result is taken over; then the run returns after its
\* last node, or goes on to the next node up to the await of its operator.
OperatorStep(r, answer, actionId) ==
    /\ r \in 1..Len(pipeline)
    /\ pipeline[r].status = "running"
    /\ LET p == pipeline[r]
           manifest == Manifests[p.manifest]
           call == p.awaiting[1]
           out == call.output
           executed == Append(p.executed, call)
           currentData == NextInput(call.type, out, p.currentData)
           itemsFetched == IF call.type = "pull" /\ out.kind = "rows" THEN Len(out.rows)
                           ELSE p.itemsFetched
           actionResult == IF call.type = "stage" THEN out.action ELSE p.actionResult
       IN  IF Aborts(out) \/ p.pos = Len(manifest.graph)
           THEN /\ pipeline' =
                      Put(r, IF Aborts(out) THEN Finished(p, "failed", <<>>, executed)
                             ELSE Finished(p, "done",
                                           <<Return(p, currentData, actionResult,
                                                    p.operatorsApplied, itemsFetched)>>,
                                           executed))
                /\ UNCHANGED <<fetchLog, cached_data, ivs, lastWrite, staging>>
           ELSE CallOperator(r, [p EXCEPT !.pos = @ + 1, !.currentData = currentData,
                                          !.itemsFetched = itemsFetched,
                                          !.actionResult = actionResult,
                                          !.executed = executed, !.awaiting = <<>>],
                             answer, actionId)
    /\ UNCHANGED pipelineFrame

\* What connector.fetch gives the live pulls of these runs: rows, or a
\* rejection.
PipelineAnswers ==
    {Returned(<<Row("gmail", "m1", toISOString(MinutesPerDay), DataHi),
                Row("gmail", "m2", toISOString(MinutesPerDay + 5), DataQ4)>>),
     Throw}

NextPipeline ==
    \/ \E id \in ManifestIds, cacheOnly \in BOOLEAN, answer \in PipelineAnswers :
          ExecutePipeline(id, cacheOnly, answer, "act_1")
    \/ \E r \in 1..MaxRuns, answer \in PipelineAnswers : OperatorStep(r, answer, "act_1")

\* Pipeline runs over a store that holds rows of earlier syncs.
SpecPipeline ==
    /\ \E store \in LeftoverStores \ {<<>>} : InitWith(store, KeyTable(1), StoredFilters)
    /\ [][NextPipeline]_vars

\* ------------------------------------------- authorizing and disconnecting
NextOAuth ==
    \/ \E s \in DOMAIN config, state \in StateValues : OAuthStart(s, state)
    \/ \E s \in DOMAIN config, q \in CallbackQueries : OAuthCallback(s, q[1], q[2], q[3])
    \/ \E e \in exchanging, outcome \in ExchangeOutcomes \cup {"response"} :
          OAuthCallbackResume(e, outcome)
    \/ \E e \in exchanging, outcome \in {"info", "noinfo", "throw"} :
          OAuthCallbackFinish(e, outcome)
    \/ \E t \in NewTokens : TokensEvent(t)
    \/ PurgeStates
    \/ \E step \in {StateMaxAge + 1} : Elapse(step)
    \/ \E s \in DOMAIN config : OAuthBudget /\ Disconnect(s)
    \/ \E s \in VaultSources : OAuthBudget /\ RefreshToken(s)
    \/ \E p \in refreshing, ok \in BOOLEAN : RefreshResponse(p, ok)
    \/ \E p \in refreshing, a \in UNION {RefreshAnswers(s) : s \in VaultSources} :
          RefreshFinish(p, a)

\* The OAuth routes and the token refresh, from a first start with nothing
\* authorized or from a start with both sources authorized earlier.
SpecOAuth ==
    /\ \/ InitWith(<<>>, KeyTable(1), StoredFilters)
       \/ \E auth \in {Credentials, PartCredentials} :
             InitInstalled(<<>>, KeyTable(1), StoredFilters, <<"1", "h">>, <<>>, {}, auth)
    /\ [][NextOAuth]_vars

\* Every operation of the gateway, the OAuth connect of gmail and the
\* 'tokens' listener it wires included, in runs of at most MaxOps requests,
\* sync runs and clock steps, from a first start with two enabled keys.
OpsBudget == Requests + nsync + nticks < MaxOps

\* The fetch results drawn in these runs: a rejection, or one row.
GatewayResult(source, ok) ==
    IF ok THEN Returned(<<Row(source, "m1", toISOString(0), DataQ4)>>) ELSE Throw

\* The requests drawn in these runs: no header, the agent's key and the key
\* the owner may create; each refusal of the handlers next to a served
\* request; the first action; the agent's key and the created key's id. A
\* sync's fetch returns its row here; its failures are in the cache runs.
GatewayTokens == {<<>>, <<"pk_good">>, <<"pk_new">>}
GatewayPulls ==
    {<<"", "why">>, <<"gmail", "">>, <<"slack", "why">>, <<"gmail", "why">>, <<"github", "why">>}
GatewayProposals == {<<"", "why">>, <<"gmail", "">>, <<"gmail", "why">>}
GatewayKeyIds == {"agent", "lab-bot"}

NextGateway ==
    \/ \E tok \in GatewayTokens, op \in AgentOps : OpsBudget /\ AuthMiddleware(tok, op)
    \/ \E tok \in GatewayTokens, r \in GatewayProposals :
          Propose(tok, r[1], "send_email", <<>>, r[2])
    \/ \E d \in Decisions : OpsBudget /\ ResolveBegin("act_1", d)
    \/ \E n \in 1..MaxRequests, o \in {"success", "throw"} : ResolveFinish(n, o)
    \/ OpsBudget /\ Edit("act_1", <<[subject |-> "b"]>>)
    \/ StartSyncJobs
    \/ OpsBudget /\ ClearTimers
    \/ \E tok \in GatewayTokens, r \in GatewayPulls : Pull(tok, r[1], r[2])
    \/ \E n \in 1..MaxRequests, s \in DOMAIN config, ok \in BOOLEAN :
          PullFinish(n, GatewayResult(s, ok))
    \/ \E s \in DOMAIN config : OpsBudget /\ SyncTick(s)
    \/ \E s \in DOMAIN config : SyncFinish(s, GatewayResult(s, TRUE))
    \/ OpsBudget /\ Tick(MinutesPerDay)
    \/ \E id \in GatewayKeyIds : OpsBudget /\ RevokeKey(id)
    \/ \E name \in KeyNames, raw \in NewRawKeys : OpsBudget /\ CreateKey(name, raw)
    \/ OpsBudget /\ LoadDemoData
    \/ OpsBudget /\ UnloadDemoData
    \/ \E s \in DOMAIN config : OpsBudget /\ Disconnect(s)
    \/ OpsBudget /\ OAuthStart("gmail", "st1")
    \/ OpsBudget /\ OAuthCallback("gmail", "code", "st1", "")
    \/ \E e \in exchanging : OAuthCallbackResume(e, "tokens")
    \/ \E e \in exchanging : OAuthCallbackFinish(e, "info")
    \/ \E t \in NewTokens : OpsBudget /\ TokensEvent(t)

SpecGateway == InitWith(<<>>, KeyTable(1), StoredFilters) /\ [][NextGateway]_vars

\* ------------------------------------- every operation that has a ledger
\* The agent's pull and propose, the owner's edit and resolve, the OAuth
\* connect of gmail, the disconnect of either source, and the sync jobs.
NextLedger ==
    \/ \E op \in AgentOps : OpsBudget /\ AuthMiddleware(<<"pk_good">>, op)
    \/ Propose(<<"pk_good">>, "gmail", "send_email", <<>>, "why")
    \/ \E d \in Decisions : OpsBudget /\ ResolveBegin("act_1", d)
    \/ \E n \in 1..MaxRequests, o \in {"success", "throw"} : ResolveFinish(n, o)
    \/ OpsBudget /\ Edit("act_1", <<[subject |-> "b"]>>)
    \/ \E s \in DOMAIN config : Pull(<<"pk_good">>, s, "why")
    \/ \E n \in 1..MaxRequests, s \in DOMAIN config, ok \in BOOLEAN :
          PullFinish(n, GatewayResult(s, ok))
    \/ OpsBudget /\ StartSyncJobs
    \/ \E s \in DOMAIN config : OpsBudget /\ SyncTick(s)
    \/ \E s \in DOMAIN config : SyncFinish(s, GatewayResult(s, TRUE))
    \/ OpsBudget /\ OAuthStart("gmail", "st1")
    \/ OpsBudget /\ OAuthCallback("gmail", "code", "st1", "")
    \/ \E e \in exchanging, outcome \in {"tokens", "error"} : OAuthCallbackResume(e, outcome)
    \/ \E e \in exchanging, outcome \in {"info", "throw"} : OAuthCallbackFinish(e, outcome)
    \/ \E s \in DOMAIN config : Disconnect(s)

SpecLedger == InitWith(<<>>, KeyTable(1), StoredFilters) /\ [][NextLedger]_vars

\* -------------------------- pulls of live sources and the 'tokens' listener
\* The 'tokens' event raised while a fetch of gmail is awaited: the OAuth
\* client of gmail's connector refreshes its access token when the fetch
\* finds it expired, and the listener the callback wired persists it.
FetchTokensEvent(newTokens) ==
    /\ \/ \E r \in pulling : r.source = "gmail"
       \/ syncing["gmail"] > 0
    /\ TokensEvent(newTokens)

\* Pulls under every cache setting, over a store with rows left by an earlier
\* run, next to the OAuth connect of gmail that wires the listener.
NextLivePull ==
    \/ OAuthStart("gmail", "st1")
    \/ OAuthCallback("gmail", "code", "st1", "")
    \/ \E e \in exchanging : OAuthCallbackResume(e, "tokens")
    \/ \E e \in exchanging : OAuthCallbackFinish(e, "info")
    \/ AuthMiddleware(<<"pk_good">>, "pull")
    \/ \E s \in DOMAIN config : Pull(<<"pk_good">>, s, "why")
    \/ \E n \in 1..MaxRequests, s \in DOMAIN config, ok \in BOOLEAN :
          PullFinish(n, GatewayResult(s, ok))
    \/ \E t \in NewTokens : FetchTokensEvent(t)

SpecLivePull ==
    /\ \E store \in LeftoverStores, cached \in CacheSettings :
          InitLoaded(store, KeyTable(1), StoredFilters, <<"1", "h">>, StoredTokens,
                     {"gmail", "github"}, Credentials, cached)
    /\ [][NextLivePull]_vars

SpecStaging == InitWith(<<>>, KeyTable(0), StoredFilters) /\ [][NextStaging]_vars

SpecCache ==
    /\ \E store \in LeftoverStores : InitWith(store, KeyTable(0), StoredFilters)
    /\ [][NextCache]_vars

\* ------------------------------------------ the owner edits quick filters
\* A filter the owner adds: INSERT INTO filters (...) VALUES (?, ?, ?, ?, 1).
NewFilters ==
    {[id |-> "f4", source |-> "gmail", type |-> "hide_field",
      value |-> <<"b", "o", "d", "y">>, enabled |-> 1]}

filtersFrame ==
    <<api_keys, cacheTtl, cacheSources, ownerAuth, pipeline, oauthState, admitted, vaultState, connectorRegistry, now, nticks, nreq, lastCall, lastResp,
      stagingState, cacheState, pullState, audit_log>>

AddFilter(f) ==
    /\ f \in NewFilters
    /\ \A g \in filters : g.id # f.id
    /\ filters' = filters \cup {f}
    /\ UNCHANGED filtersFrame

\* The owner switches a filter off: enabled = 0 for that filter.
DisableFilter(id) ==
    /\ \E f \in filters : f.id = id /\ f.enabled = 1
    /\ filters' = {IF f.id = id THEN [f EXCEPT !.enabled = 0] ELSE f : f \in filters}
    /\ UNCHANGED filtersFrame

FilterIds == {"f1", "f2", "f3", "f4"}

\* The sources served from the cache.
CachedSources == {s \in DOMAIN config : CacheEnabled(s)}

NextReadTime ==
    \/ StartSyncJobs
    \/ CacheBudget /\ ClearTimers
    \/ AuthMiddleware(<<"pk_good">>, "pull")
    \/ \E s \in CachedSources : Pull(<<"pk_good">>, s, "why")
    \/ \E s \in DOMAIN config : SyncTick(s)
    \/ \E s \in DOMAIN config, res \in UNION {FetchResults(t) : t \in DOMAIN config} :
          SyncFinish(s, res)
    \/ \E f \in NewFilters : AddFilter(f)
    \/ \E id \in FilterIds : DisableFilter(id)
    \/ Tick(MinutesPerDay)

SpecReadTime == InitWith(<<>>, KeyTable(1), StoredFilters) /\ [][NextReadTime]_vars

\* ------------------------------------ pulls next to syncs that fail writing
NextAtomic ==
    \/ StartSyncJobs
    \/ CacheBudget /\ ClearTimers
    \/ AuthMiddleware(<<"pk_good">>, "pull")
    \/ \E s \in CachedSources : Pull(<<"pk_good">>, s, "why")
    \/ \E s \in DOMAIN config : SyncTick(s)
    \/ \E s \in DOMAIN config : SyncSource(s)
    \/ \E s \in DOMAIN config :
          \E res \in (FetchResults(s) \ {Throw}) \cup UnwritableBatches(s) : SyncFinish(s, res)
    \/ Tick(MinutesPerDay)

SpecAtomic == InitWith(<<>>, KeyTable(1), StoredFilters) /\ [][NextAtomic]_vars

\* ------------ sync jobs under every cache setting, with direct syncSource
\* What the fetch of a sync settles with in these runs: one row, or a
\* rejection.
PurgeResults(source) == {res \in FetchResults(source) : res = Throw \/ Len(res.rows) = 1}

\* syncSource is exported: next to the timers' ticks it is called directly,
\* for any source, whatever the source's cache setting.
NextPurge ==
    \/ StartSyncJobs
    \/ CacheBudget /\ ClearTimers
    \/ \E s \in DOMAIN config : SyncTick(s)
    \/ \E s \in DOMAIN config : SyncSource(s)
    \/ \E s \in DOMAIN config : \E res \in PurgeResults(s) : SyncFinish(s, res)

SpecPurge ==
    /\ \E store \in LeftoverStores, cached \in CacheSettings :
          InitLoaded(store, KeyTable(0), StoredFilters, <<"1", "h">>, StoredTokens,
                     {"gmail", "github"}, Credentials, cached)
    /\ [][NextPurge]_vars

\* ------------------------------------ reads after the key was changed
\* Stores left by a run under another encryption key, next to rows stored
\* unencrypted.
KeyChangedStores ==
    { << StoredRow("gmail", "m0", toISOString(MinutesPerDay), PlainField(JSON_stringify(DataQ4))) >>,
      << StoredRow("gmail", "m0", toISOString(MinutesPerDay), PlainField(JSON_stringify(DataQ4))),
         StoredRow("gmail", "m3", toISOString(MinutesPerDay),
                   encryptField(JSON_stringify(DataQ4), "old-key", 0)) >>,
      << StoredRow("gmail", "m3", toISOString(MinutesPerDay),
                   encryptField(JSON_stringify(DataQ4), "old-key", 0)),
         StoredRow("gmail", "m4", toISOString(MinutesPerDay),
                   encryptField(JSON_stringify(DataQ4), encryptionKey[1], 0)) >> }

SpecKeyChanged ==
    /\ \E store \in KeyChangedStores : InitWith(store, KeyTable(1), StoredFilters)
    /\ [][NextReadTime]_vars

\* ------------------------------------------- sync under every TTL setting
\* Values of sources.gmail.cache.ttl: absent, well formed in each unit, and
\* malformed (an unknown unit, no amount).
TtlSettings ==
    {<<>>, <<"7", "d">>, <<"1", "h">>, <<"1", "0", "m">>, <<"1", "w">>, <<"d">>}

NextTtl ==
    \/ StartSyncJobs
    \/ CacheBudget /\ ClearTimers
    \/ \E s \in DOMAIN config : SyncTick(s)
    \/ \E s \in DOMAIN config, res \in UNION {FetchResults(t) : t \in DOMAIN config} :
          SyncFinish(s, res)
    \/ \E step \in ClockSteps : Tick(step)

SpecTtl ==
    /\ \E ttl \in TtlSettings : InitConfigured(<<>>, KeyTable(1), StoredFilters, ttl)
    /\ [][NextTtl]_vars

\* ---------------------------------------------------- applyFilters alone
\* Rows and filters handed to applyFilters: values with upper and lower case,
\* a field named in upper case, timestamps before, at and after a date.
FilterRows ==
    { Row("gmail", "m1", toISOString(MinutesPerDay), DataQ4),
      Row("gmail", "m2", toISOString(MinutesPerDay - 1),
          [title |-> <<"h", "i">>, Body |-> <<"y">>, author_email |-> <<"a">>]),
      Row("gmail", "m3", toISOString(MinutesPerDay + 5), DataHi) }

\* Three mails titled "Q4 Report", "Lunch" and "Q4 Budget".
Q4Rows ==
    << Row("gmail", "s1", toISOString(MinutesPerDay),
           [title |-> <<"Q", "4", " ", "R", "e", "p", "o", "r", "t">>]),
       Row("gmail", "s2", toISOString(MinutesPerDay),
           [title |-> <<"L", "u", "n", "c", "h">>]),
       Row("gmail", "s3", toISOString(MinutesPerDay),
           [title |-> <<"Q", "4", " ", "B", "u", "d", "g", "e", "t">>]) >>

RowLists == UNION {[1..n -> FilterRows] : n \in 0..MaxRows} \cup {Q4Rows}

FilterRules ==
    { <<"time_after", <<1>>>>, <<"subject_include", <<"q", "4">>>>,
      <<"subject_include", <<"Q", "4">>>>,
      <<"exclude_keyword", <<"H">>>>, <<"from_include", <<"a">>>>,
      <<"has_attachment", <<>>>>, <<"hide_field", <<"b", "o", "d", "y">>>>,
      <<"hide_field", <<"T", "i", "t", "l", "e">>>>, <<"custom", <<"x">>>> }

QuickFilters ==
    {[id |-> <<r[1], r[2], e>>, source |-> "gmail", type |-> r[1], value |-> r[2],
      enabled |-> e] : r \in FilterRules, e \in {0, 1}}

FilterSets == {fs \in SUBSET QuickFilters : Cardinality(fs) <= MaxFilters}

\* A call applyFilters(rows, filters): the argument and the result are kept.
ApplyFilters(rows) ==
    /\ lastFetched' = [n |-> 0, rows |-> rows]
    /\ lastResp' = Resp(0, "applyFilters", 0, Null, Len(rows), applyFilters(rows, filters))
    /\ UNCHANGED <<api_keys, cacheTtl, cacheSources, ownerAuth, pipeline, oauthState, admitted, vaultState, connectorRegistry, now, nticks, nreq, lastCall,
                   filters, stagingState, cacheState, audit_log, pulling, fetchLog>>

NextFilters == \E rows \in RowLists : ApplyFilters(rows)

SpecVault == InitWith(<<>>, KeyTable(1), StoredFilters) /\ [][NextVault]_vars

\* ------------------------------------- the cipher under every pair of keys
\* The wrong key of the encryption tests next to the vault's secrets, and
\* plaintexts of the tests.
CipherKeys == Secrets \cup {"wrong-key"}
Plaintexts == {"Hello, this is sensitive data!", "test", ""}

\* const encrypted = encryptField(p, k); decryptField(encrypted, k2): what
\* the second call returned, or that it threw.
EncryptThenDecrypt(p, k, k2) ==
    LET encrypted == encryptField(p, k, ivs + 1)
    IN  /\ VaultBudget
        /\ nreq' = nreq + 1
        /\ ivs' = ivs + 1
        /\ lastCall' = Call("decryptField", Null, Null, Null, <<p, k, k2>>)
        /\ lastResp' = IF DecryptThrows(encrypted, k2)
                       THEN Resp(nreq + 1, "decryptField", 0, Null, "throw", <<>>)
                       ELSE Resp(nreq + 1, "decryptField", 0, Null, "returned",
                                 <<decryptField(encrypted, k2)>>)
        /\ UNCHANGED <<oauth_tokens, refreshing, vaultFrame>>

\* TokenManagers built over the one database with any of the keys, and the
\* two cipher functions called on their own.
NextCipher ==
    \/ \E p \in Plaintexts, k \in CipherKeys, k2 \in CipherKeys : EncryptThenDecrypt(p, k, k2)
    \/ \E s \in VaultSources, d \in TokenDatas, k \in CipherKeys : StoreToken(s, d, k)
    \/ \E s \in VaultSources, k \in CipherKeys : GetToken(s, k)

SpecCipher == InitWith(<<>>, KeyTable(1), StoredFilters) /\ [][NextCipher]_vars

\* ------------------------------------------------------------ every step
Next ==
    \/ NextStaging \/ NextCache \/ NextOwner \/ NextVault \/ NextPipeline \/ NextOAuth
    \/ NextPurge \/ NextLivePull \/ NextCipher

Spec == Init /\ [][Next]_vars

SpecFilters ==
    /\ \E fs \in FilterSets : InitWith(<<>>, KeyTable(1), fs)
    /\ [][NextFilters]_vars

\* ================================================================= claims
\* A request was received in this step.
Received(op) == nreq' = nreq + 1 /\ lastCall'.op = op

\* A response was sent in this step.
Responded(op) == lastResp' # lastResp /\ lastResp'.op = op

\* C1: connector.executeAction is invoked for a staged action only after a
\* resolve call with decision approve was issued for that action id, and a
\* propose call never invokes executeAction.
C1_ExecuteOnlyAfterApprove ==
    /\ [](\A i \in 1..Len(execLog) : execLog[i].actionId \in approveIssued)
    /\ [][Received("propose") => execLog' = execLog]_vars

C1_Witness ==
    /\ Len(execLog) = 1
    /\ \E id \in DOMAIN staging : id \notin approveIssued

\* C2: a resolve call on an action that is not pending fails with an error,
\* leaves the staging table untouched and invokes no connector.
C2_ResolveNonPendingFails ==
    [][(/\ Received("resolve")
        /\ lastCall'.actionId \in DOMAIN staging
        /\ staging[lastCall'.actionId].status # "pending")
       => (/\ staging' = staging
           /\ execLog' = execLog
           /\ lastResp'.n = nreq'
           /\ lastResp'.code >= 400)]_vars

\* C3: a staging action starts as pending and its status only ever changes
\* along pending->approved, approved->committed or pending->rejected.
StatusSteps ==
    {<<"pending", "approved">>, <<"approved", "committed">>, <<"pending", "rejected">>}

C3_StatusTransitions ==
    [][\A id \in DOMAIN staging' :
          IF id \in DOMAIN staging
          THEN \/ staging'[id].status = staging[id].status
               \/ <<staging[id].status, staging'[id].status>> \in StatusSteps
          ELSE staging'[id].status = "pending"]_vars

\* C4: an accepted propose call creates exactly one new staging record, under
\* an action id no existing record has, with status pending, answers
\* pending_review, and leaves every existing record unchanged.
C4_ProposeCreatesFreshPending ==
    [][(Received("propose") /\ lastResp'.code = 200)
       => (/\ lastResp'.n = nreq'
           /\ lastResp'.status = "pending_review"
           /\ lastResp'.actionId \notin DOMAIN staging
           /\ DOMAIN staging' = DOMAIN staging \cup {lastResp'.actionId}
           /\ staging'[lastResp'.actionId].status = "pending"
           /\ \A id \in DOMAIN staging : staging'[id] = staging[id])]_vars

C4_Witness ==
    /\ lastResp.op = "propose"
    /\ lastResp.code = 200
    /\ Cardinality(DOMAIN staging) = 2
    /\ staging[lastResp.actionId].status = "pending"

\* C5: after resolve(approve) on a pending action the status ends as
\* committed, whether executeAction returns success, returns a failure or
\* throws.
C5_ApproveEndsCommitted ==
    [][\A r \in resolving :
          (r \notin resolving' /\ r.was = "pending")
          => staging'[r.actionId].status = "committed"]_vars

\* C6: an edit of an action that is not pending is refused as not pending, an
\* edit of an unknown action id as not found; neither changes the table.
C6_EditRefused ==
    [][Received("edit")
       => (/\ lastResp'.n = nreq'
           /\ lastCall'.actionId \notin DOMAIN staging
              => (lastResp'.code = 404 /\ staging' = staging)
           /\ (/\ lastCall'.actionId \in DOMAIN staging
               /\ staging[lastCall'.actionId].status # "pending")
              => (lastResp'.code = 400 /\ staging' = staging))]_vars

C6_Witness ==
    /\ lastResp.op = "edit"
    /\ lastResp.code = 400
    /\ lastResp.n = nreq
    /\ staging[lastResp.actionId].status \in {"approved", "committed", "rejected"}

\* C7: an edit of a pending action stores the old payload with the supplied
\* fields merged over it: a supplied key takes the supplied value, any other
\* key keeps its old value, and the status stays pending.
C7_EditMerges ==
    [][(/\ Received("edit")
        /\ lastCall'.actionId \in DOMAIN staging
        /\ staging[lastCall'.actionId].status = "pending")
       => LET id == lastCall'.actionId
              old == JSON_parse(staging[id].action_data)
              new == JSON_parse(staging'[id].action_data)
              sup == IF lastCall'.data = <<>> THEN EmptyObject ELSE lastCall'.data[1]
          IN  /\ lastResp'.n = nreq' /\ lastResp'.code = 200
              /\ DOMAIN new = DOMAIN old \cup DOMAIN sup
              /\ \A k \in DOMAIN sup : new[k] = sup[k]
              /\ \A k \in DOMAIN old \ DOMAIN sup : new[k] = old[k]
              /\ staging'[id].status = "pending"
              /\ \A o \in DOMAIN staging' \ {id} : staging'[o] = staging[o]]_vars

C7_Witness ==
    /\ lastResp.op = "edit"
    /\ lastResp.code = 200
    /\ lastResp.n = nreq
    /\ JSON_parse(staging[lastResp.actionId].action_data) = [to |-> "a", subject |-> "b"]

\* A pull request the middleware admitted that passes the handler's check of
\* the purpose.
ValidPull(call) == call.data[3] # Null /\ call.data[2] # ""

\* The keys (source, item) of a row list.
RowKeys(rows) == {<<rows[i].source, rows[i].source_item_id>> : i \in 1..Len(rows)}

\* C8: a pull of a cache-enabled source never invokes connector.fetch; its
\* result is computed from the cached rows only, and with no cached rows of
\* the source it succeeds with an empty result.
C8_CachedPullNeverFetches ==
    [][(/\ Received("pull")
        /\ lastCall'.source \in DOMAIN config
        /\ CacheEnabled(lastCall'.source))
       => LET src == lastCall'.source IN
          /\ fetchLog' = fetchLog
          /\ pulling' = pulling
          /\ cached_data' = cached_data
          /\ lastResp'.n = nreq'
          /\ ValidPull(lastCall')
             => (/\ lastResp'.code = 200
                 /\ lastResp'.data = applyFilters(readFromCache(src), EnabledFilters(src))
                 /\ RowKeys(lastResp'.data) \subseteq RowKeys(cached_data)
                 /\ (\A i \in 1..Len(cached_data) : cached_data[i].source # src)
                    => lastResp'.data = <<>>)]_vars

C8_Witness ==
    /\ lastResp.op = "pull"
    /\ lastResp.code = 200
    /\ lastResp.n = nreq
    /\ lastCall.source = "gmail"
    /\ Len(cached_data) = 2
    /\ Len(lastResp.data) = 1
    /\ "gmail" \in connectorRegistry
    /\ \A i \in 1..Len(fetchLog) : fetchLog[i].by = "sync"

\* C9: an accepted pull of a cache-disabled source invokes connector.fetch
\* exactly once, with the source's boundary, and its result is computed from
\* what the connector returned, whatever the cache store holds.
C9_LivePullFetchesOnce ==
    /\ [][(/\ Received("pull")
           /\ lastCall'.source \in DOMAIN config
           /\ ~CacheEnabled(lastCall'.source)
           /\ lastCall'.source \in connectorRegistry
           /\ ValidPull(lastCall'))
          => (/\ fetchLog' = Append(fetchLog,
                     [source |-> lastCall'.source,
                      boundary |-> config[lastCall'.source].boundary,
                      by |-> "pull", n |-> nreq'])
              /\ lastResp' = lastResp
              /\ cached_data' = cached_data)]_vars
    /\ [][\A r \in pulling :
             r \notin pulling'
             => (/\ fetchLog' = fetchLog
                 /\ cached_data' = cached_data
                 /\ lastResp'.n = r.n
                 /\ lastResp'.code = 200
                    => (/\ lastFetched'.n = r.n
                        /\ lastResp'.data =
                              applyFilters(lastFetched'.rows, EnabledFilters(r.source))))]_vars
    /\ [](\A i, j \in 1..Len(fetchLog) :
             (fetchLog[i].by = "pull" /\ fetchLog[j].by = "pull" /\ fetchLog[i].n = fetchLog[j].n)
             => i = j)

C9_Witness ==
    /\ lastResp.op = "pull"
    /\ lastResp.code = 200
    /\ lastCall.source = "github"
    /\ Len(lastResp.data) = 2
    /\ Len(cached_data) > 0
    /\ Cardinality({i \in 1..Len(fetchLog) : fetchLog[i].by = "pull"}) = 1

\* C10: the cache store holds at most one row per (source, source_item_id),
\* and that row carries the type, timestamp, data and expiry written by the
\* last sync that wrote the key.
C10_CacheUpsertLastWriterWins ==
    /\ \A i, j \in 1..Len(cached_data) :
          (/\ cached_data[i].source = cached_data[j].source
           /\ cached_data[i].source_item_id = cached_data[j].source_item_id) => i = j
    /\ RowKeys(cached_data) = DOMAIN lastWrite
    /\ \A i \in 1..Len(cached_data) :
          LET row == cached_data[i]
              w == lastWrite[<<row.source, row.source_item_id>>]
          IN  /\ row.type = w.type
              /\ row.timestamp = w.timestamp
              /\ JSON_parse(ReadData(row.data)) = w.data
              /\ row.expires_at = w.expires_at

C10_Witness ==
    /\ nsync = 2
    /\ ivs = 5
    /\ Len(cached_data) = 2
    /\ \E i \in 1..Len(cached_data) :
          /\ cached_data[i].source_item_id = "m1"
          /\ cached_data[i].data.iv = 4
          /\ JSON_parse(ReadData(cached_data[i].data)) = DataHi

\* A stored row passes the source's enabled row filters.
PassesFilters(row, source) ==
    applyFilters(<<[source |-> row.source, source_item_id |-> row.source_item_id,
                    type |-> row.type, timestamp |-> row.timestamp,
                    data |-> JSON_parse(ReadData(row.data))]>>, EnabledFilters(source)) # <<>>

\* C11: a cached row whose expires_at lies in the past at the time of a pull
\* is never in the pull's result, and a row with no expires_at is eligible
\* whatever the time (it is returned when it is within the boundary and passes
\* the filters).
C11_ExpiredRowsInvisible ==
    [][(/\ Received("pull")
        /\ lastCall'.source \in DOMAIN config
        /\ CacheEnabled(lastCall'.source)
        /\ lastResp'.n = nreq'
        /\ lastResp'.code = 200)
       => \A i \in 1..Len(cached_data) :
             LET row == cached_data[i]
                 key == <<row.source, row.source_item_id>>
             IN  row.source = lastCall'.source
                 => /\ (row.expires_at # <<>> /\ DateValue(row.expires_at) < now)
                       => key \notin RowKeys(lastResp'.data)
                    /\ (/\ row.expires_at = <<>>
                        /\ WithinBoundary(row.timestamp, config[row.source].boundary)
                        /\ PassesFilters(row, row.source))
                       => key \in RowKeys(lastResp'.data)]_vars

\* The rows of the sources whose cache is enabled, in table order.
RowsOfCachedSources(table) ==
    SelectSeq(table, LAMBDA r : r.source \in DOMAIN config /\ CacheEnabled(r.source))

C13_AuditAppendOnly ==
    [][/\ Len(audit_log') >= Len(audit_log)
       /\ SubSeq(audit_log', 1, Len(audit_log)) = audit_log
       /\ \A j \in (Len(audit_log) + 1)..Len(audit_log') :
             \A i \in 1..(j - 1) : audit_log'[i].id < audit_log'[j].id]_vars

\* A source was connected, pulled from and disconnected: the ledger holds
\* the three entries in that order, numbered upwards.
C13_Witness ==
    /\ Len(audit_log) = 3
    /\ [i \in 1..3 |-> audit_log[i].event] =
          <<"oauth_connected", "data_pull", "oauth_disconnected">>
    /\ \A i \in 1..2 : audit_log[i].id < audit_log[i + 1].id
    /\ lastCall.op = "disconnect"

\* This step appends exactly one data_pull entry for a pull of the source,
\* with the purpose, the key's initiator name and the size of the response.
PullLogged(source, purpose, key) ==
    /\ Len(audit_log') = Len(audit_log) + 1
    /\ SubSeq(audit_log', 1, Len(audit_log)) = audit_log
    /\ LET e == audit_log'[Len(audit_log')]
       IN  /\ e.event = "data_pull"
           /\ e.source = source
           /\ e.purpose = purpose
           /\ e.initiatedBy = <<"app", key>>
           /\ e.resultsCount = Len(lastResp'.data)

\* C14: a pull that returns data appends exactly one data_pull audit entry in
\* the step that sends the response, carrying the source, the request's
\* purpose, the initiator and the number of rows returned after filtering;
\* no other step appends a data_pull entry.
C14_PullAudited ==
    [][/\ (Received("pull") /\ lastResp'.n = nreq' /\ lastResp'.code = 200)
          => PullLogged(lastCall'.source, lastCall'.data[2], lastCall'.data[3])
       /\ \A r \in pulling :
             (r \notin pulling' /\ lastResp'.n = r.n /\ lastResp'.code = 200)
             => PullLogged(r.source, r.purpose, r.key)
       /\ (/\ Len(audit_log') > Len(audit_log)
           /\ audit_log'[Len(audit_log')].event = "data_pull")
          => (lastResp' # lastResp /\ lastResp'.op = "pull" /\ lastResp'.code = 200)]_vars

C14_Witness ==
    /\ lastResp.op = "pull"
    /\ lastResp.code = 200
    /\ lastResp.status = 2
    /\ Len(lastResp.data) = 1
    /\ Len(audit_log) = 1
    /\ audit_log[1].event = "data_pull"
    /\ audit_log[1].resultsCount = 1
    /\ audit_log[1].purpose = "why"

\* This step answers the request it received with the code and changes
\* nothing else: no connector call, no staging record, no audit entry.
Rejected(code) ==
    /\ lastResp'.n = nreq'
    /\ lastResp'.code = code
    /\ fetchLog' = fetchLog
    /\ execLog' = execLog
    /\ pulling' = pulling
    /\ staging' = staging
    /\ audit_log' = audit_log
    /\ cached_data' = cached_data

\* C15: an authenticated pull or propose (one the middleware admitted, whose
\* handler runs) without a purpose or without a source is rejected as a bad
\* request (400); a pull for an unknown source, or for a live source with no
\* registered connector, is rejected as not found (404); a rejected request
\* makes no connector call, creates no staging record and appends no audit
\* entry.
C15_RejectedRequestNoEffect ==
    [][/\ Received("pull")
          => \A tok \in Tokens, s \in SourceNames \cup DOMAIN config, p \in Purposes :
                Pull(tok, s, p)
                => /\ (p = "" \/ s = "") => Rejected(400)
                   /\ (p # "" /\ s # "" /\ s \notin DOMAIN config) => Rejected(404)
                   /\ (/\ p # ""
                       /\ s \in DOMAIN config
                       /\ ~CacheEnabled(s)
                       /\ s \notin connectorRegistry) => Rejected(404)
       /\ Received("propose")
          => \A tok \in Tokens, s \in SourceNames, t \in ActionTypes, d \in ProposeData,
                p \in Purposes :
                ((p = "" \/ s = "") /\ Propose(tok, s, t, d, p))
                => Rejected(400)]_vars

C15_Witness ==
    /\ lastCall.op = "pull"
    /\ lastCall.source = "github"
    /\ lastCall.data = <<<<"pk_good">>, "why", "agent">>
    /\ lastResp.n = nreq
    /\ lastResp.code = 404
    /\ "github" \notin connectorRegistry
    /\ fetchLog = <<FetchCall("gmail", "sync", 0)>>
    /\ Len(audit_log) = 1
    /\ audit_log[1].event = "oauth_disconnected"

\* The enabled key records a bearer token matches.
MatchingKeys(tok) ==
    IF tok = <<>> THEN {}
    ELSE {id \in DOMAIN api_keys :
             api_keys[id].enabled = 1 /\ api_keys[id].key_hash = hashSync(tok[1])}

\* C16: the key of a pull or propose is checked when the request arrives. A
\* request bearing a token that matches no enabled key record is rejected as
\* unauthorized (401) with no fetch, no staging record and no audit entry;
\* a request is admitted only under an enabled key its token matches, a
\* handler runs only for an admitted request and never answers 401; revoking
\* a key disables that key only, and a disabled key stays disabled.
C16_OnlyEnabledKeysServed ==
    [][/\ \A tok \in Tokens, op \in AgentOps :
             (AuthMiddleware(tok, op) /\ MatchingKeys(tok) = {})
             => (Received(op) /\ Rejected(401) /\ admitted' = admitted)
       /\ \A a \in BagToSet(admitted') :
             CopiesIn(a, admitted') > CopiesIn(a, admitted)
             => /\ a.key \in MatchingKeys(a.tok)
                /\ a.op \in AgentOps
                /\ nreq' = nreq
                /\ lastResp' = lastResp
       /\ \A op \in AgentOps :
             (Received(op) /\ ~(lastResp'.n = nreq' /\ lastResp'.code = 401))
             => \E a \in BagToSet(admitted) :
                   /\ a.op = op
                   /\ admitted' = admitted (-) SetToBag({a})
       /\ \A id \in DOMAIN api_keys :
             /\ api_keys[id].enabled = 0 => api_keys'[id].enabled = 0
             /\ api_keys'[id] # api_keys[id]
                => (/\ lastCall'.op = "revoke"
                    /\ lastCall'.data = <<id>>
                    /\ nreq' = nreq + 1)
             /\ (nreq' = nreq + 1 /\ lastCall'.op = "revoke" /\ lastCall'.data = <<id>>)
                => api_keys'[id].enabled = 0]_vars

\* The agent's key was revoked and a pull bearing it was then refused, while
\* the other key is still enabled.
C16_Witness ==
    /\ api_keys["agent"].enabled = 0
    /\ api_keys["other"].enabled = 1
    /\ lastCall.op = "pull"
    /\ lastCall.data = <<<<"pk_good">>, "", Null>>
    /\ lastResp.n = nreq
    /\ lastResp.code = 401
    /\ audit_log = <<>>
    /\ admitted = EmptyBag

\* ----------------------------------------------- claims on applyFilters
\* applyFilters was called: its argument and its result.
Applied == lastResp.op = "applyFilters"
AppliedTo == lastFetched.rows
AppliedResult == lastResp.data

\* The rows of a list by item id and timestamp.
Identities(rows) == [i \in 1..Len(rows) |-> <<rows[i].source_item_id, rows[i].timestamp>>]

\* C17: applying a filter set that is empty, or whose filters are all
\* disabled, returns the row list unchanged: same rows, same order, same
\* fields.
C17_DisabledFiltersIdentity ==
    (Applied /\ \A f \in filters : f.enabled = 0) => AppliedResult = AppliedTo

C17_Witness ==
    /\ Applied
    /\ Cardinality(filters) = 2
    /\ \A f \in filters : f.enabled = 0
    /\ \E f \in filters : f.type = "time_after"
    /\ \E f \in filters : f.type = "hide_field"
    /\ Len(AppliedTo) = 2
    /\ AppliedTo[1].source_item_id = "m2"
    /\ AppliedResult = AppliedTo

\* The filter types that are row predicates.
RowPredicateTypes ==
    {"time_after", "from_include", "subject_include", "exclude_sender", "exclude_keyword",
     "has_attachment"}

\* C18: a row is in the result of applyFilters iff it passes every enabled
\* row predicate of the set, a filter of unknown type passing every row, and
\* the disabled filters have no influence on the result.
C18_RowPredicatesConjunction ==
    Applied
    => /\ Identities(AppliedResult) =
             Identities(SelectSeq(AppliedTo, LAMBDA r :
                 \A f \in filters :
                     (f.enabled = 1 /\ f.type \in RowPredicateTypes) => matchesFilter(r, f)))
       /\ AppliedResult = applyFilters(AppliedTo, {f \in filters : f.enabled = 1})

C18_Witness ==
    /\ Applied
    /\ \E f \in filters : f.type = "custom" /\ f.enabled = 1
    /\ \E f \in filters : f.type = "subject_include" /\ f.enabled = 1
    /\ Len(AppliedTo) = 2
    /\ Len(AppliedResult) = 1
    /\ AppliedResult[1].source_item_id = "m1"

\* C19: an enabled hide_field filter never changes which rows are returned:
\* it removes from every returned row each field whose name equals the
\* filter's value compared case-insensitively, and leaves the other fields
\* and the row's source, id, type and timestamp unchanged.
C19_HideFieldOnlyStripsFields ==
    Applied
    => LET hiding == {f \in filters : f.enabled = 1 /\ f.type = "hide_field"}
           hidden == {toLowerCase(f.value) : f \in hiding}
           kept == applyFilters(AppliedTo, filters \ hiding)
       IN  /\ Len(AppliedResult) = Len(kept)
           /\ \A i \in 1..Len(AppliedResult) :
                 /\ AppliedResult[i].source = kept[i].source
                 /\ AppliedResult[i].source_item_id = kept[i].source_item_id
                 /\ AppliedResult[i].type = kept[i].type
                 /\ AppliedResult[i].timestamp = kept[i].timestamp
                 /\ DOMAIN AppliedResult[i].data =
                       {k \in DOMAIN kept[i].data : toLowerCase(KeyChars(k)) \notin hidden}
                 /\ \A k \in DOMAIN AppliedResult[i].data :
                       AppliedResult[i].data[k] = kept[i].data[k]

C19_Witness ==
    /\ Applied
    /\ \E f \in filters : f.type = "hide_field" /\ f.enabled = 1 /\ f.value = <<"b", "o", "d", "y">>
    /\ Len(AppliedTo) = 2
    /\ Len(AppliedResult) = 2
    /\ AppliedTo[1].source_item_id = "m1"
    /\ AppliedTo[2].source_item_id = "m2"
    /\ DOMAIN AppliedResult[1].data = {"title"}
    /\ DOMAIN AppliedResult[2].data = {"title", "author_email"}

\* r.timestamp >= v, on the date and the time of day.
TimeGeq(timestamp, v) ==
    LET minute(text) == IF Len(text) >= 3 THEN text[3] ELSE 0
    IN  timestamp[1] > v[1] \/ (timestamp[1] = v[1] /\ minute(timestamp) >= minute(v))

\* C20: with an enabled time_after filter of value v, a row r survives the
\* filter iff r.timestamp >= v; a row whose timestamp equals v survives.
C20_TimeAfterInclusive ==
    Applied
    => \A f \in filters :
          (f.type = "time_after" /\ f.enabled = 1)
          => /\ \A i \in 1..Len(AppliedResult) : TimeGeq(AppliedResult[i].timestamp, f.value)
             /\ filters = {f}
                => AppliedResult = SelectSeq(AppliedTo, LAMBDA r : TimeGeq(r.timestamp, f.value))

C20_Witness ==
    /\ Applied
    /\ Cardinality(filters) = 1
    /\ \E f \in filters : f.type = "time_after" /\ f.enabled = 1 /\ f.value = <<1>>
    /\ Len(AppliedTo) = 2
    /\ AppliedTo[1].timestamp = toISOString(MinutesPerDay - 1)
    /\ AppliedTo[2].timestamp = toISOString(MinutesPerDay)
    /\ Len(AppliedResult) = 1
    /\ AppliedResult[1].source_item_id = "m1"

\* The title of a row as the filter reads it: String(d.title || '').
TitleOf(row) == IF "title" \in DOMAIN row.data THEN row.data["title"] ELSE <<>>

\* str contains sub, letter for letter.
Contains(str, sub) ==
    \E i \in 1..(Len(str) - Len(sub) + 1) : SubSeq(str, i, i + Len(sub) - 1) = sub

\* The pairs of an upper-case letter and its lower-case letter.
CasePairs ==
    {<<"Q", "q">>, <<"B", "b">>, <<"H", "h">>, <<"T", "t">>, <<"R", "r">>, <<"L", "l">>}

\* Two characters that are equal up to letter case.
SameLetter(a, b) == a = b \/ <<a, b>> \in CasePairs \/ <<b, a>> \in CasePairs

\* str contains sub when letter case is ignored.
ContainsIgnoringCase(str, sub) ==
    \E i \in 1..(Len(str) - Len(sub) + 1) :
        \A j \in 1..Len(sub) : SameLetter(str[i + j - 1], sub[j])

\* C21 as stated: an enabled subject_include filter with value v keeps exactly
\* the rows whose title contains v.
C21_SubjectIncludeKeepsContaining ==
    Applied
    => \A f \in filters :
          (f.type = "subject_include" /\ f.enabled = 1 /\ filters = {f})
          => AppliedResult = SelectSeq(AppliedTo, LAMBDA r : Contains(TitleOf(r), f.value))

\* C21 amended: an enabled subject_include filter with value v keeps exactly
\* the rows whose title contains v when letter case is ignored; applied with
\* v = "Q4" to rows titled "Q4 Report", "Lunch" and "Q4 Budget" it returns
\* exactly the two "Q4" rows.
C21_SubjectIncludeIgnoringCase ==
    Applied
    => \A f \in filters :
          (f.type = "subject_include" /\ f.enabled = 1)
          => /\ \A i \in 1..Len(AppliedResult) :
                   \E k \in 1..Len(AppliedTo) :
                       /\ AppliedTo[k].source_item_id = AppliedResult[i].source_item_id
                       /\ ContainsIgnoringCase(TitleOf(AppliedTo[k]), f.value)
             /\ filters = {f}
                => AppliedResult = SelectSeq(AppliedTo, LAMBDA r :
                                       ContainsIgnoringCase(TitleOf(r), f.value))
             /\ (filters = {f} /\ f.value = <<"Q", "4">> /\ AppliedTo = Q4Rows)
                => AppliedResult = <<Q4Rows[1], Q4Rows[3]>>

C21_Witness ==
    /\ Applied
    /\ \E f \in filters :
          f.type = "subject_include" /\ f.enabled = 1 /\ f.value = <<"Q", "4">> /\ filters = {f}
    /\ AppliedTo = Q4Rows
    /\ Len(AppliedResult) = 2
    /\ AppliedResult[1].source_item_id = "s1"
    /\ AppliedResult[2].source_item_id = "s3"

\* ------------------------------------------------ claims on the token vault
\* What getToken answers for a source before and after a step.
Held(source) == getToken(oauth_tokens, source, masterSecret)
HeldNext(source) == getToken(oauth_tokens', source, masterSecret)

\* The rows of the table that belong to a source.
RecordsOf(table, source) == {i \in 1..Len(table) : table[i].source = source}

\* getToken's answer for a record written by storeToken(data): the fields
\* given, an empty or absent refresh token as absent, and the defaults
\* 'Bearer', '' and {} for an absent token type, scopes and account info.
AnswerFor(data) ==
    [kind |-> "token",
     token |-> <<[access_token |-> data.access_token,
                  refresh_token |-> IF data.refresh_token = <<"">> THEN <<>>
                                    ELSE data.refresh_token,
                  token_type |-> IF data.token_type = <<>> THEN <<"Bearer">>
                                 ELSE data.token_type,
                  expires_at |-> data.expires_at,
                  scopes |-> IF data.scopes = <<>> THEN <<"">> ELSE data.scopes,
                  account_info |-> IF data.account_info = <<>> THEN <<EmptyObject>>
                                   ELSE data.account_info]>>]

\* getToken's answer once the record's access token and expiry were replaced.
AnswerUpdated(held, accessToken, expiresAt) ==
    IF held.kind = "null" THEN held
    ELSE [held EXCEPT !.token = <<[held.token[1] EXCEPT !.access_token = accessToken,
                                                        !.expires_at = expiresAt]>>]

\* The TokenManager call made in this step.
Called(op) == nreq' = nreq + 1 /\ lastCall'.op = op
Stored(s, d) == Called("storeToken") /\ StoreToken(s, d, masterSecret)
Updated(s, a, e) == Called("updateAccessToken") /\ UpdateAccessToken(s, a, e)
Deleted(s) == Called("deleteToken") /\ DeleteToken(s)

\* A refresh of the source got a usable answer in this step.
Refreshed(source, p, a) ==
    /\ nreq' = nreq
    /\ lastResp'.op = "refreshToken"
    /\ p.source = source /\ a.ok /\ a.access_token # <<>>
    /\ RefreshFinish(p, a)

\* The sources whose record a step is allowed to touch.
Touched ==
    {s \in VaultSources :
        \/ \E d \in TokenDatas : Stored(s, d)
        \/ \E a \in AccessTokens, e \in Expiries : Updated(s, a, e)
        \/ Deleted(s)
        \/ \E p \in refreshing, a \in RefreshAnswers(s) : Refreshed(s, p, a)}

\* C22: the vault never holds two records of one source; getToken answers the
\* data of the last storeToken (a GitHub refresh stores the refreshed data),
\* with the access token and expiry of a later updateAccessToken or Gmail
\* refresh, and null after deleteToken; every other step leaves it as it was.
C22_VaultOneRecordLastWriter ==
    /\ [](\A s \in VaultSources : Cardinality(RecordsOf(oauth_tokens, s)) <= 1)
    /\ [][/\ \A s \in VaultSources, d \in TokenDatas :
                Stored(s, d) => HeldNext(s) = AnswerFor(d)
          /\ \A s \in VaultSources, a \in AccessTokens, e \in Expiries :
                Updated(s, a, e) => HeldNext(s) = AnswerUpdated(Held(s), a, e)
          /\ \A s \in VaultSources : Deleted(s) => HeldNext(s).kind = "null"
          /\ \A p \in refreshing, a \in RefreshAnswers("gmail") :
                Refreshed("gmail", p, a)
                => HeldNext("gmail") =
                       AnswerUpdated(Held("gmail"), a.access_token[1], RefreshExpiry(a))
          /\ \A p \in refreshing, a \in RefreshAnswers("github") :
                Refreshed("github", p, a)
                => HeldNext("github") =
                       AnswerFor([p.token EXCEPT
                           !.access_token = a.access_token[1],
                           !.refresh_token = IF a.refresh_token # <<>> THEN a.refresh_token
                                             ELSE p.token.refresh_token,
                           !.expires_at = RefreshExpiry(a)])
          /\ \A s \in VaultSources \ Touched : HeldNext(s) = Held(s)]_vars

\* After three calls the last one stored over gmail's record, another one
\* having stored a record for github.
C22_Witness ==
    /\ lastCall.op = "storeToken"
    /\ lastCall.source = "gmail"
    /\ nreq = 3
    /\ Len(oauth_tokens) = 2
    /\ Held("gmail") = AnswerFor(lastCall.data[1])
    /\ Held("gmail").token[1].access_token = "at2"
    /\ Held("github").kind = "token"

\* The table after updateAccessToken(source, accessToken, expiresAt): as many
\* rows, the source's row with the new access token and expiry and its other
\* columns but updated_at as they were, the other rows untouched.
OnlyAccessAndExpiry(source, accessToken, expiresAt) ==
    /\ Len(oauth_tokens') = Len(oauth_tokens)
    /\ RecordsOf(oauth_tokens', source) = RecordsOf(oauth_tokens, source)
    /\ \A i \in 1..Len(oauth_tokens) :
          LET old == oauth_tokens[i]
              new == oauth_tokens'[i]
          IN  IF old.source # source THEN new = old
              ELSE /\ new.source = source
                   /\ new.refresh_token = old.refresh_token
                   /\ new.scopes = old.scopes
                   /\ new.account_info = old.account_info
                   /\ new.token_type = old.token_type
                   /\ new.created_at = old.created_at
                   /\ ~DecryptThrows(new.access_token, masterSecret)
                   /\ decryptField(new.access_token, masterSecret) = accessToken
                   /\ new.expires_at = expiresAt

\* C23: updateAccessToken, called directly or by a Gmail refresh, changes the
\* access token and the expiry of the source's record and nothing else of it
\* (refresh token, scopes, account info), leaves the records of other sources
\* unchanged and creates no record when the source has none.
C23_UpdateTouchesAccessOnly ==
    [][/\ \A s \in VaultSources, a \in AccessTokens, e \in Expiries :
             Updated(s, a, e) => OnlyAccessAndExpiry(s, a, e)
       /\ \A p \in refreshing, a \in RefreshAnswers("gmail") :
             Refreshed("gmail", p, a)
             => OnlyAccessAndExpiry("gmail", a.access_token[1], RefreshExpiry(a))]_vars

\* gmail's record was updated while github had a record: the refresh token
\* is still the one stored first.
C23_Witness ==
    /\ lastCall.op = "updateAccessToken"
    /\ lastCall.source = "gmail"
    /\ lastCall.data = <<"at3", <<>>>>
    /\ Len(oauth_tokens) = 2
    /\ Held("gmail").token[1].access_token = "at3"
    /\ Held("gmail").token[1].expires_at = <<>>
    /\ Held("gmail").token[1].refresh_token = <<"rt0">>
    /\ Held("github").kind = "token"

\* getToken(source) was the last call, made by a TokenManager holding key.
GotToken(source, key) ==
    /\ lastCall.op = "getToken"
    /\ lastCall.source = source
    /\ lastCall.data = <<key>>
    /\ lastResp.op = "getToken"
    /\ lastResp.n = lastCall.n

AppendedOne == Len(audit_log') = Len(audit_log) + 1 /\ SubSeq(audit_log', 1, Len(audit_log)) = audit_log
NewEntry == audit_log'[Len(audit_log')]

\* The ledger holds an entry of the event for the action.
Logged(event, actionId) ==
    \E i \in 1..Len(audit_log) : audit_log[i].event = event /\ audit_log[i].actionId = actionId

\* The event kind that matches a status an action moves to.
EventOf(status) ==
    CASE status = "pending" -> "action_proposed"
      [] status = "approved" -> "action_approved"
      [] status = "rejected" -> "action_rejected"
      [] status = "committed" -> "action_committed"

\* C25: a step that creates a staged action or changes its status appends
\* exactly one ledger entry, of the kind matching the new status and carrying
\* the action id; a committed entry carries the outcome of executeAction; an
\* action's approved or rejected entry is appended after its proposed entry
\* and its committed entry after an approved entry.
C25_StagingTransitionsAudited ==
    [][/\ \A id \in DOMAIN staging' :
             (id \notin DOMAIN staging \/ staging'[id].status # staging[id].status)
             => /\ AppendedOne
                /\ NewEntry.event = EventOf(staging'[id].status)
                /\ NewEntry.actionId = id
                /\ NewEntry.event \in {"action_approved", "action_rejected"}
                   => Logged("action_proposed", id)
                /\ NewEntry.event = "action_committed" => Logged("action_approved", id)
       /\ \A n \in 1..MaxRequests, o \in ExecOutcomes :
             (nreq' = nreq /\ ResolveFinish(n, o) /\ o # "throw")
             => /\ NewEntry.event = "action_committed"
                /\ NewEntry.result = (IF o = "success" THEN "success" ELSE "failure")
                /\ staging'[NewEntry.actionId].status = "committed"]_vars

\* One action went through propose, approve and commit: its three entries
\* are in the ledger in that order.
C25_Witness ==
    /\ Len(audit_log) = 3
    /\ audit_log[1].event = "action_proposed"
    /\ audit_log[2].event = "action_approved"
    /\ audit_log[3].event = "action_committed"
    /\ audit_log[3].result = "failure"
    /\ \A i \in 1..3 : audit_log[i].actionId = "act_1"
    /\ staging["act_1"].status = "committed"

\* ------------------------------------------------ claims on the cache TTL
\* The length in minutes of a TTL setting: the amount times its unit, seven
\* days for a setting that is not an amount followed by d, h or m.
TtlMinutes(ttl) ==
    CASE ttl = <<"7", "d">> -> 7 * MinutesPerDay
      [] ttl = <<"1", "h">> -> MinutesPerHour
      [] ttl = <<"1", "0", "m">> -> 10
      [] OTHER -> 7 * MinutesPerDay

\* A sync of the source stored the rows of a fetched batch in this step.
Synced(source, result) ==
    /\ syncing'[source] = syncing[source] - 1
    /\ result.ok
    /\ SyncFinish(source, result)

\* Every row of the batch is stored with the expiry.
StoredWithExpiry(result, expiry) ==
    \A i \in 1..Len(result.rows) :
        \E k \in 1..Len(cached_data') :
            /\ cached_data'[k].source = result.rows[i].source
            /\ cached_data'[k].source_item_id = result.rows[i].source_item_id
            /\ cached_data'[k].expires_at = expiry

\* C26 as stated: every row a sync upserts gets expires_at = sync time + TTL,
\* and sync time + 7 days when the TTL is malformed or absent.
C26_SyncSetsExpiry ==
    [][\A s \in DOMAIN config : \A res \in FetchResults(s) :
          Synced(s, res) => StoredWithExpiry(res, toISOString(now + TtlMinutes(cacheTtl)))]_vars

\* C26 amended: every row a sync upserts gets expires_at = sync time + TTL,
\* sync time + 7 days when the TTL is malformed, and no expires_at when no
\* TTL is configured.
C26_SyncSetsExpiryUnlessAbsent ==
    [][\A s \in DOMAIN config : \A res \in FetchResults(s) :
          Synced(s, res)
          => StoredWithExpiry(res, IF cacheTtl = <<>> THEN <<>>
                                   ELSE toISOString(now + TtlMinutes(cacheTtl)))]_vars

\* Two hours after startup a sync under a TTL of ten minutes stored a row
\* that expires ten minutes later.
C26_Witness ==
    /\ cacheTtl = <<"1", "0", "m">>
    /\ now = 2 * MinutesPerHour
    /\ \E k \in 1..Len(cached_data) :
          /\ cached_data[k].cached_at = datetime(now)
          /\ cached_data[k].expires_at = toISOString(now + 10)

\* ------------------------------------------------ claims on failed syncs
\* A sync of the source ended in this step with a rejected fetch.
SyncFailed(source) ==
    /\ syncing'[source] = syncing[source] - 1
    /\ Len(syncErrors') = Len(syncErrors) + 1
    /\ SyncFinish(source, Throw)

\* The data column of a stored row, read back.
StoredData(row) == JSON_parse(ReadData(row.data))

\* C27: a sync whose fetch fails is caught: it leaves the cache store as it
\* was and every timer scheduled. A timer goes only when the function that
\* startSyncJobs returned is called, so later ticks run, and a sync whose
\* fetch succeeds stores every row of its batch, also after a failure.
C27_FailedSyncHarmless ==
    [][/\ \A s \in DOMAIN config :
             SyncFailed(s) => /\ cached_data' = cached_data
                              /\ timers' = timers
                              /\ started'
       /\ (\A s \in DOMAIN config : CopiesIn(s, timers') >= CopiesIn(s, timers)) \/ ClearTimers
       /\ \A s \in DOMAIN config : \A res \in FetchResults(s) :
             Synced(s, res)
             => \A i \in 1..Len(res.rows) :
                   \E k \in 1..Len(cached_data') :
                       /\ cached_data'[k].source = res.rows[i].source
                       /\ cached_data'[k].source_item_id = res.rows[i].source_item_id
                       /\ cached_data'[k].cached_at = datetime(now)
                       /\ \E j \in i..Len(res.rows) :
                             /\ res.rows[j].source_item_id = res.rows[i].source_item_id
                             /\ cached_data'[k].timestamp = res.rows[j].timestamp
                             /\ StoredData(cached_data'[k]) = res.rows[j].data]_vars

\* gmail's first sync failed at startup and left the store empty; the tick
\* two hours later fetched two rows and stored them.
C27_Witness ==
    /\ syncErrors = <<[source |-> "gmail", at |-> 0]>>
    /\ now = 2 * MinutesPerHour
    /\ nsync = 2
    /\ syncing["gmail"] = 0
    /\ BagIn("gmail", timers)
    /\ Len(cached_data) = 2
    /\ \A k \in 1..2 : cached_data[k].cached_at = datetime(now)

\* -------------------------------------------- claims on read-time filters
\* A pull of a cache-enabled source was answered 200 in this step.
ServedFromCache ==
    /\ Received("pull")
    /\ lastCall'.source \in DOMAIN config
    /\ CacheEnabled(lastCall'.source)
    /\ lastResp'.n = nreq'
    /\ lastResp'.code = 200

\* C28: a sync stores every row of the fetched batch with all its fields,
\* whatever filters the source has, and a pull served from the cache returns
\* the readable cached rows that pass the row filters enabled at that moment,
\* without the fields hidden at that moment.
C28_FiltersAtReadTimeOnly ==
    [][/\ \A s \in DOMAIN config : \A res \in FetchResults(s) :
             Synced(s, res)
             => \A i \in 1..Len(res.rows) :
                   \E k \in 1..Len(cached_data') :
                       /\ cached_data'[k].source_item_id = res.rows[i].source_item_id
                       /\ \E j \in i..Len(res.rows) :
                             /\ res.rows[j].source_item_id = res.rows[i].source_item_id
                             /\ StoredData(cached_data'[k]) = res.rows[j].data
       /\ ServedFromCache
          => LET s == lastCall'.source
                 on == {f \in filters : f.source = s /\ f.enabled = 1}
                 hidden == {toLowerCase(f.value) : f \in {g \in on : g.type = "hide_field"}}
                 kept == SelectSeq(readFromCache(s), LAMBDA r :
                             \A f \in on : f.type \in RowPredicateTypes => matchesFilter(r, f))
                 got == lastResp'.data
             IN  /\ Identities(got) = Identities(kept)
                 /\ \A i \in 1..Len(got) :
                       /\ DOMAIN got[i].data =
                             {k \in DOMAIN kept[i].data : toLowerCase(KeyChars(k)) \notin hidden}
                       /\ \A k \in DOMAIN got[i].data : got[i].data[k] = kept[i].data[k]]_vars

\* One sync, then two pulls of gmail with the subject filter switched off in
\* between: the first pull returned one row, the second both cached rows.
C28_Witness ==
    /\ nsync = 1
    /\ Len(cached_data) = 2
    /\ Len(audit_log) = 2
    /\ audit_log[1].event = "data_pull" /\ audit_log[1].resultsCount = 1
    /\ audit_log[2].event = "data_pull" /\ audit_log[2].resultsCount = 2
    /\ \E f \in filters : f.id = "f1" /\ f.enabled = 0
    /\ lastResp.op = "pull"
    /\ Len(lastResp.data) = 2

\* ------------------------------------------------ claims on the boundary
\* The instant a timestamp text names, in minutes.
InstantOf(timestamp) == timestamp[1] * MinutesPerDay + timestamp[3]

\* The first instant of the day an after date names.
StartOf(after) == after[1] * MinutesPerDay

\* C29: a pull of a cache-enabled source whose boundary has an after date
\* returns no row whose timestamp is an instant before that date, whatever
\* rows the cache store holds.
C29_NoCachedRowBeforeBoundary ==
    [][ServedFromCache /\ config[lastCall'.source].boundary.after # <<>>
       => \A i \in 1..Len(lastResp'.data) :
             InstantOf(lastResp'.data[i].timestamp)
                >= StartOf(config[lastCall'.source].boundary.after)]_vars

\* A pull of gmail returned rows while the store held an unexpired gmail
\* row from before the boundary date.
C29_Witness ==
    /\ lastResp.op = "pull"
    /\ lastResp.n = nreq
    /\ lastCall.source = "gmail"
    /\ lastResp.code = 200
    /\ Len(lastResp.data) >= 1
    /\ \E k \in 1..Len(cached_data) :
          /\ cached_data[k].source = "gmail"
          /\ NotExpired(cached_data[k].expires_at)
          /\ InstantOf(cached_data[k].timestamp) < StartOf(config.gmail.boundary.after)

\* ------------------------------------------------- claims on the pipeline
\* The manifest of a run.
RunManifest(r) == Manifests[pipeline[r].manifest]

\* The runs made so far.
Runs == 1..Len(pipeline)

\* C30: when a pipeline run has succeeded, the operators executed are the
\* nodes of the manifest's graph, one execution per node and in graph order,
\* the first on an empty row list and every later one on the rows its
\* predecessor returned, and operatorsApplied lists the graph's "name:kind"
\* pairs in that order.
C30_RunFollowsGraph ==
    \A r \in Runs :
        pipeline[r].status = "done"
        => LET graph == RunManifest(r).graph
               kind(i) == RunManifest(r).operators[graph[i]].type
           IN  /\ Len(pipeline[r].executed) = Len(graph)
               /\ \A i \in 1..Len(graph) :
                     /\ pipeline[r].executed[i].node = graph[i]
                     /\ pipeline[r].executed[i].type = kind(i)
                     /\ pipeline[r].executed[i].input =
                           (IF i = 1 THEN <<>> ELSE pipeline[r].executed[i - 1].output.rows)
               /\ pipeline[r].result[1].meta.operatorsApplied =
                     [i \in 1..Len(graph) |-> <<graph[i], ":", kind(i)>>]

\* A live run of the three-node manifest succeeded and returned a row whose
\* body was redacted by the third node.
C30_Witness ==
    \E r \in Runs :
        /\ pipeline[r].status = "done"
        /\ pipeline[r].manifest = "redacted"
        /\ ~pipeline[r].cacheOnly
        /\ Len(pipeline[r].executed) = 3
        /\ \E i \in 1..Len(pipeline[r].result[1].data) :
              pipeline[r].result[1].data[i].data.body = <<"#">>

\* A run of executePipeline began in this step.
RunBegan == Len(pipeline') = Len(pipeline) + 1

\* The graph names an undeclared operator, or holds a stage node that is not
\* its last element.
BadGraph(manifest) ==
    \E i \in 1..Len(manifest.graph) :
        \/ manifest.graph[i] \notin DOMAIN manifest.operators
        \/ /\ manifest.graph[i] \in DOMAIN manifest.operators
           /\ manifest.operators[manifest.graph[i]].type = "stage"
           /\ i # Len(manifest.graph)

\* C31: a run on a manifest whose graph names an undeclared operator or holds
\* a stage that is not last fails at once, with no operator executed, no
\* connector fetch, no cache write and no staged action.
C31_BadGraphRunsNothing ==
    [][RunBegan /\ BadGraph(Manifests[pipeline'[Len(pipeline')].manifest])
       => /\ pipeline'[Len(pipeline')].status = "failed"
          /\ pipeline'[Len(pipeline')].result = <<>>
          /\ pipeline'[Len(pipeline')].executed = <<>>
          /\ pipeline'[Len(pipeline')].operatorsApplied = <<>>
          /\ fetchLog' = fetchLog
          /\ cached_data' = cached_data
          /\ staging' = staging]_vars

\* A live run of the manifest whose stage comes first has failed with
\* nothing fetched and nothing staged.
C31_Witness ==
    /\ Len(pipeline) = 1
    /\ pipeline[1].status = "failed"
    /\ pipeline[1].manifest = "stage_first"
    /\ ~pipeline[1].cacheOnly
    /\ pipeline[1].executed = <<>>
    /\ fetchLog = <<>>
    /\ DOMAIN staging = {}

\* C32: an operator that throws is the last one the run executes, and the
\* run has then failed with no result for the caller.
C32_ThrowAbortsRun ==
    \A r \in Runs :
        /\ \A i \in 1..Len(pipeline[r].executed) :
              pipeline[r].executed[i].output.kind = "throw"
              => /\ i = Len(pipeline[r].executed)
                 /\ pipeline[r].status = "failed"
                 /\ pipeline[r].result = <<>>
        /\ pipeline[r].status = "failed" => pipeline[r].awaiting = <<>>

\* The second node of a three-node graph threw after the first had returned
\* rows: the third was not executed.
C32_Witness ==
    \E r \in Runs :
        /\ pipeline[r].status = "failed"
        /\ pipeline[r].manifest = "two_pulls"
        /\ Len(pipeline[r].executed) = 2
        /\ Len(pipeline[r].executed[1].output.rows) >= 1
        /\ pipeline[r].executed[2].output.kind = "throw"

\* ------------------------------------------- claims on the decrypt fallback
\* A stored row that the cache read of its source selects.
Selected(row) ==
    /\ row.source \in DOMAIN config
    /\ WithinBoundary(row.timestamp, config[row.source].boundary)
    /\ NotExpired(row.expires_at)

\* The payload of the row cannot be decrypted under the configured key.
Undecryptable(row) == ~row.data.enc \/ row.data.key # encryptionKey[1]

\* A valid pull of a cache-enabled source was received in this step.
CachedPull ==
    /\ Received("pull")
    /\ lastCall'.source \in DOMAIN config
    /\ CacheEnabled(lastCall'.source)
    /\ ValidPull(lastCall')

\* C33: a pull of a cache-enabled source whose selected rows include one
\* that cannot be decrypted does not fail, and every selected row stored
\* unencrypted that passes the enabled row filters is returned with its
\* original data.
C33_UndecryptableRowsReadAsStored ==
    [][(/\ CachedPull
        /\ \E k \in 1..Len(cached_data) :
              /\ cached_data[k].source = lastCall'.source
              /\ Selected(cached_data[k])
              /\ Undecryptable(cached_data[k]))
       => /\ lastResp'.n = nreq'
          /\ lastResp'.code = 200
          /\ \A k \in 1..Len(cached_data) :
                (/\ cached_data[k].source = lastCall'.source
                 /\ Selected(cached_data[k])
                 /\ ~cached_data[k].data.enc
                 /\ \A f \in EnabledFilters(lastCall'.source) :
                       matchesFilter([data |-> JSON_parse(cached_data[k].data.text),
                                      timestamp |-> cached_data[k].timestamp], f))
                => \E i \in 1..Len(lastResp'.data) :
                      /\ lastResp'.data[i].source_item_id = cached_data[k].source_item_id
                      /\ \A key \in DOMAIN lastResp'.data[i].data :
                            lastResp'.data[i].data[key] =
                               JSON_parse(cached_data[k].data.text)[key]]_vars

\* ------------------------------------------------- claims on the OAuth flow
\* The state was consumed by a callback.
Consumed(state) == \E i \in 1..Len(acceptedCallbacks) : acceptedCallbacks[i].state = state

\* A callback for the source carrying the state would be authorized: a start
\* call for that source issued the state and no callback has consumed it.
Authorizes(state, source) ==
    /\ state \in DOMAIN issuedStates
    /\ issuedStates[state] = source
    /\ ~Consumed(state)

\* The vault, the registry and the ledger are as they were.
NothingConnected ==
    /\ oauth_tokens' = oauth_tokens
    /\ connectorRegistry' = connectorRegistry
    /\ audit_log' = audit_log

\* Every callback that went on to the token exchange carried a state issued
\* for its source, and no state let two callbacks through.
OneCallbackPerState ==
    /\ \A i \in 1..Len(acceptedCallbacks) :
          /\ acceptedCallbacks[i].state \in DOMAIN issuedStates
          /\ issuedStates[acceptedCallbacks[i].state] = acceptedCallbacks[i].source
          /\ \A j \in 1..Len(acceptedCallbacks) :
                acceptedCallbacks[j].state = acceptedCallbacks[i].state => j = i
    /\ \A e \in exchanging :
          \E i \in 1..Len(acceptedCallbacks) :
              acceptedCallbacks[i] = [state |-> e.state, source |-> e.source]

\* C34: a callback stores a credential, registers a connector or appends an
\* audit entry only after it was let through on a state issued by a start
\* call for its source and not consumed before; each state lets at most one
\* callback through; and a callback whose state is unknown, consumed or
\* issued for the other source changes neither vault, registry nor ledger
\* and starts no token exchange.
C34_CallbackNeedsFreshState ==
    /\ []OneCallbackPerState
    /\ [][/\ (Received("oauth_callback") /\ ~Authorizes(lastCall'.data[2], lastCall'.source))
             => (NothingConnected /\ exchanging' = exchanging)
          /\ (Received("oauth_callback") /\ exchanging' # exchanging)
             => Authorizes(lastCall'.data[2], lastCall'.source)
          /\ (lastResp' # lastResp /\ lastResp'.op = "oauth_callback" /\ ~NothingConnected)
             => \E e \in exchanging :
                   /\ e.n = lastResp'.n
                   /\ e \notin exchanging'
                   /\ issuedStates[e.state] = e.source]_vars

\* A callback connected a source, and a second callback carrying the same
\* state was then refused.
C34_Witness ==
    /\ Len(acceptedCallbacks) = 1
    /\ \E i \in 1..Len(audit_log) : audit_log[i].event = "oauth_connected"
    /\ lastCall.op = "oauth_callback"
    /\ lastCall.source = acceptedCallbacks[1].source
    /\ lastCall.data[2] = acceptedCallbacks[1].state
    /\ lastResp.n = lastCall.n
    /\ lastResp.status = "invalid_state"

\* ------------------------------------- claims on concurrent resolve calls
\* C35: whatever resolve calls were made, repeated or overlapping, the
\* connector's executeAction was called at most once for each staged action.
C35_ExecutedAtMostOncePerAction ==
    \A i, j \in 1..Len(execLog) :
        execLog[i].actionId = execLog[j].actionId => i = j

\* C36: the connector is called with the payload the staging row holds when
\* the approve decision is taken, and the row of an approved or committed
\* action keeps the payload every execution of it was given: no edit gets in
\* between or after.
C36_ExecutedPayloadIsStoredPayload ==
    /\ [](\A i \in 1..Len(execLog) :
            (/\ execLog[i].actionId \in DOMAIN staging
             /\ staging[execLog[i].actionId].status \in {"approved", "committed"})
            => JSON_parse(staging[execLog[i].actionId].action_data) = execLog[i].actionData)
    /\ [][(Received("resolve") /\ Len(execLog') > Len(execLog))
          => /\ Len(execLog') = Len(execLog) + 1
             /\ lastCall'.decision = "approve"
             /\ execLog'[Len(execLog')].actionId = lastCall'.actionId
             /\ execLog'[Len(execLog')].actionData
                    = JSON_parse(staging[lastCall'.actionId].action_data)
             /\ staging'[lastCall'.actionId].action_data
                    = staging[lastCall'.actionId].action_data]_vars

\* An edited action was approved, and an edit that arrived while the
\* connector call was still awaited was refused.
C36_Witness ==
    /\ Len(execLog) = 1
    /\ execLog[1].actionData = [to |-> "a", subject |-> "b"]
    /\ \E r \in resolving : r.actionId = execLog[1].actionId
    /\ lastCall.op = "edit"
    /\ lastCall.actionId = execLog[1].actionId
    /\ lastCall.data # <<>>
    /\ lastResp.n = lastCall.n
    /\ lastResp.code = 400

\* ------------------------------------------ claims on the sync transaction
\* The cache holds every row of the batch, each key with the data of the
\* batch's last row of that key.
AllWritten(rows) ==
    \A i \in 1..Len(rows) :
        \E k \in 1..Len(cached_data') :
            /\ cached_data'[k].source = rows[i].source
            /\ cached_data'[k].source_item_id = rows[i].source_item_id
            /\ \E j \in i..Len(rows) :
                  /\ rows[j].source_item_id = rows[i].source_item_id
                  /\ cached_data'[k].timestamp = rows[j].timestamp
                  /\ StoredData(cached_data'[k]) = rows[j].data

\* C37: the end of a sync tick either leaves cached_data as it was, which is
\* what a tick that fails does, or leaves it holding every row of the batch;
\* and a pull of a cache-enabled source is answered from the rows of one
\* such state, so it sees all of a tick's upserts or none.
C37_SyncWritesAllOrNothing ==
    [][/\ \A s \in DOMAIN config : \A res \in FetchResults(s) \cup UnwritableBatches(s) :
             (syncing'[s] = syncing[s] - 1 /\ SyncFinish(s, res))
             => \/ /\ cached_data' = cached_data
                   /\ Len(syncErrors') = Len(syncErrors) + 1
                \/ /\ AllWritten(res.rows)
                   /\ syncErrors' = syncErrors
       /\ syncErrors' # syncErrors => cached_data' = cached_data
       /\ ServedFromCache
          => /\ cached_data' = cached_data
             /\ lastResp'.data = applyFilters(readFromCache(lastCall'.source),
                                              EnabledFilters(lastCall'.source))]_vars

\* A tick whose transaction threw at its second row left neither of its rows: the row it
\* would have updated still holds what the earlier tick wrote, and a pull of
\* the source is served the one row of the earlier tick that passes the
\* source's filter.
C37_Witness ==
    /\ nsync = 2
    /\ \A s \in DOMAIN config : syncing[s] = 0
    /\ Len(syncErrors) = 1
    /\ Len(cached_data) = 2
    /\ \E k \in 1..Len(cached_data) :
          /\ cached_data[k].source_item_id = "m1"
          /\ StoredData(cached_data[k]) = DataHi
    /\ \A k \in 1..Len(cached_data) : cached_data[k].source_item_id # "m6"
    /\ lastCall.op = "pull"
    /\ lastCall.source = "gmail"
    /\ lastResp.n = nreq
    /\ lastResp.code = 200
    /\ lastResp.data = applyFilters(readFromCache("gmail"), EnabledFilters("gmail"))
    /\ Len(lastResp.data) = 1
    /\ lastResp.data[1].source_item_id = "m2"

\* ------------------------------------------------- claims on disconnecting
\* The source's last connection event in the ledger is its disconnect: the
\* disconnect completed and no authorization callback succeeded since.
DisconnectedLast(source) ==
    \E i \in 1..Len(audit_log) :
        /\ audit_log[i].event = "oauth_disconnected"
        /\ audit_log[i].source = source
        /\ \A j \in (i + 1)..Len(audit_log) :
              ~(audit_log[j].event = "oauth_connected" /\ audit_log[j].source = source)

\* C38: from the completion of a source's disconnect until an authorization
\* callback for it succeeds, the vault holds no credential record of the
\* source, whatever refresh was in flight.
C38_NoRecordAfterDisconnect ==
    \A source \in VaultSources :
        DisconnectedLast(source)
        => \A i \in 1..Len(oauth_tokens) : oauth_tokens[i].source # source

\* ---------------------------------------- claims on ledger and staging
\* The statuses a staging action may have given an audit entry of the event.
StatusesFor(event) ==
    IF event = "action_approved" THEN {"approved", "committed"}
    ELSE IF event = "action_rejected" THEN {"rejected"}
    ELSE {"committed"}

\* C39: every action_approved, action_rejected or action_committed entry of
\* the ledger names an action of the staging table, whose status is approved
\* or committed, rejected, or committed respectively.
C39_LedgerAgreesWithStaging ==
    \A i \in 1..Len(audit_log) :
        audit_log[i].event \in {"action_approved", "action_rejected", "action_committed"}
        => /\ audit_log[i].actionId \in DOMAIN staging
           /\ staging[audit_log[i].actionId].status \in StatusesFor(audit_log[i].event)

\* ------------------------------------------- claims on what a pull writes
\* A step of a pull: the middleware admitting or refusing it, its handler
\* up to its response or its fetch, or the rest of the handler once the fetch
\* has settled.
PullStep ==
    \/ Received("pull")
    \/ \E a \in BagToSet(admitted') :
          a.op = "pull" /\ CopiesIn(a, admitted') > CopiesIn(a, admitted)
    \/ /\ nreq' = nreq
       /\ pulling' # pulling

\* The 'tokens' listener ran while the fetch of a pull of gmail was awaited.
PullFetchRefresh ==
    /\ Received("tokens")
    /\ \E r \in pulling : r.source = "gmail"

\* The ledger gains one data_pull entry when this step answers 200, and
\* nothing otherwise.
PullAudited ==
    IF lastResp' # lastResp /\ lastResp'.code = 200
    THEN /\ Len(audit_log') = Len(audit_log) + 1
         /\ SubSeq(audit_log', 1, Len(audit_log)) = audit_log
         /\ audit_log'[Len(audit_log')].event = "data_pull"
    ELSE audit_log' = audit_log

\* C40 as stated: from its admission to its response, the listener's run
\* during its fetch included, a pull leaves cached rows, staging actions,
\* quick filters, API keys and credential records as they were and appends
\* at most its one data_pull entry.
C40_PullLeavesStore ==
    [][(PullStep \/ PullFetchRefresh)
       => /\ cached_data' = cached_data
          /\ staging' = staging
          /\ filters' = filters
          /\ api_keys' = api_keys
          /\ oauth_tokens' = oauth_tokens
          /\ PullAudited]_vars

\* C40: the steps of the pull handler leave cached rows, staging actions,
\* quick filters, API keys and credential records as they were, for a source
\* served from the cache and for one fetched live, and the ledger gains the
\* pull's one data_pull entry when the pull is answered 200 and nothing
\* otherwise; a 'tokens' event during the fetch of a live pull of gmail
\* changes nothing but the access token, the expiry and the update time of
\* gmail's credential record.
C40_PullWritesAuditOnly ==
    [][/\ PullStep
          => /\ cached_data' = cached_data
             /\ staging' = staging
             /\ filters' = filters
             /\ api_keys' = api_keys
             /\ oauth_tokens' = oauth_tokens
             /\ PullAudited
       /\ PullFetchRefresh
          => /\ cached_data' = cached_data
             /\ staging' = staging
             /\ filters' = filters
             /\ api_keys' = api_keys
             /\ audit_log' = audit_log
             /\ Len(oauth_tokens') = Len(oauth_tokens)
             /\ \A i \in 1..Len(oauth_tokens) :
                   \/ oauth_tokens'[i] = oauth_tokens[i]
                   \/ /\ oauth_tokens[i].source = "gmail"
                      /\ [oauth_tokens'[i] EXCEPT
                            !.access_token = oauth_tokens[i].access_token,
                            !.expires_at = oauth_tokens[i].expires_at,
                            !.updated_at = oauth_tokens[i].updated_at] = oauth_tokens[i]]_vars

\* Under a configuration with gmail's cache disabled, over a store with
\* leftover rows: a live pull of gmail was answered with a row and logged,
\* and while its fetch was awaited the listener replaced gmail's access token.
C40_Witness ==
    /\ "gmail" \notin cacheSources
    /\ lastCall.op = "tokens"
    /\ lastResp.op = "pull"
    /\ lastResp.n = lastCall.n - 1
    /\ lastResp.code = 200
    /\ Len(lastResp.data) > 0
    /\ Len(cached_data) > 0
    /\ getToken(oauth_tokens, "gmail", masterSecret).token[1].access_token = "at7"
    /\ audit_log[Len(audit_log)].event = "data_pull"
    /\ audit_log[Len(audit_log)].source = "gmail"

====
